---- MODULE Spec2Model ----
(***************************************************************************)
(* Model of the agentchat-chess engine core: the bit-packed position       *)
(* (board.rs), the move generator (movegen.rs) and the walk that search    *)
(* and perft make over one mutable position (search.rs, movegen.rs).       *)
(*                                                                         *)
(* A Bitboard (u64) is modelled as the set of its set bits, a subset of    *)
(* 0..63: `a | b` is union, `a & b` intersection, `a ^ b` symmetric        *)
(* difference (XOR below), `1u64 << sq` the singleton {sq}.  The castling  *)
(* rights byte is modelled the same way, as the set of its set bit values  *)
(* {1, 2, 4, 8}.  Option::None is the integer None.                        *)
(***************************************************************************)
EXTENDS Integers, Sequences, FiniteSets, TLC

VARIABLES
    board,        \* the host's one position (Board), undo stack included
    pc,           \* where the running operation stands
    root,         \* the position as search or perft received it
    depth0,       \* the depth search or perft was called with
    stack,        \* the call frames of search, negamax or perft
    rv,           \* the value the frame on top is returning
    result,       \* what the finished call returned
    cutoff_seen,  \* whether the walk has taken a beta cutoff
    nread,        \* the input lines the command loop has read
    out           \* the lines the last go or perft has printed

vars == <<board, pc, root, depth0, stack, rv, result, cutoff_seen, nread, out>>

\* everything but the position
walk == <<pc, root, depth0, stack, rv, result, cutoff_seen, nread, out>>

\* ------------------------------------------------------------------ types

Pawn == 0
Knight == 1
Bishop == 2
Rook == 3
Queen == 4
King == 5

White == 0
Black == 1

None == -1

A1 == 0
B1 == 1
C1 == 2
D1 == 3
E1 == 4
F1 == 5
G1 == 6
H1 == 7
A8 == 56
B8 == 57
C8 == 58
D8 == 59
E8 == 60
F8 == 61
G8 == 62
H8 == 63

WHITE_KINGSIDE == 1
WHITE_QUEENSIDE == 2
BLACK_KINGSIDE == 4
BLACK_QUEENSIDE == 8

Squares == 0..63
Pieces == 0..5
Colors == 0..1

opposite(c) == IF c = White THEN Black ELSE White

XOR(a, b) == (a \ b) \cup (b \ a)

Abs(x) == IF x < 0 THEN -x ELSE x

Move(from, to, promotion, is_castle, is_en_passant) ==
    [from |-> from, to |-> to, promotion |-> promotion,
     is_castle |-> is_castle, is_en_passant |-> is_en_passant]

\* BitIter yields the set bits of a bitboard from the lowest to the highest.
AllSquaresSeq == [i \in 1..64 |-> i - 1]

BitIter(bb) == SelectSeq(AllSquaresSeq, LAMBDA s : s \in bb)

RECURSIVE Concat(_)
Concat(ss) == IF ss = <<>> THEN <<>> ELSE Head(ss) \o Concat(Tail(ss))

\* the sequence f(s[1]) \o f(s[2]) \o ... : a loop pushing onto one Vec
FlatMap(s, f(_)) == Concat([i \in 1..Len(s) |-> f(s[i])])

Range(s) == {s[i] : i \in 1..Len(s)}

\* ------------------------------------------------------------------ board.rs

\* the starting position's twelve bitboards (0x...FF00 and so on, as bit sets)
StartPieces ==
    [c \in Colors |->
        IF c = White
        THEN [p \in Pieces |->
                CASE p = Pawn   -> 8..15
                  [] p = Knight -> {1, 6}
                  [] p = Bishop -> {2, 5}
                  [] p = Rook   -> {0, 7}
                  [] p = Queen  -> {3}
                  [] p = King   -> {4}]
        ELSE [p \in Pieces |->
                CASE p = Pawn   -> 48..55
                  [] p = Knight -> {57, 62}
                  [] p = Bishop -> {58, 61}
                  [] p = Rook   -> {56, 63}
                  [] p = Queen  -> {59}
                  [] p = King   -> {60}]]

\* the occupancy left as it was, not recomputed
update_occupancy_stale(b) == b

update_occupancy(b) ==
    [b EXCEPT !.occupancy =
        [c \in Colors |-> UNION {b.pieces[c][p] : p \in Pieces}]]

\* Board::new
NewBoard ==
    update_occupancy(
        [pieces |-> StartPieces,
         occupancy |-> [c \in Colors |-> {}],
         side_to_move |-> White,
         castling_rights |-> {WHITE_KINGSIDE, WHITE_QUEENSIDE,
                              BLACK_KINGSIDE, BLACK_QUEENSIDE},
         en_passant_sq |-> None,
         halfmove_clock |-> 0,
         history |-> <<>>,
         panicked |-> FALSE])

\* the first piece kind, in the order pawn..king, whose bitboard holds sq
find_piece_at(b, sq, color) ==
    LET found == {p \in Pieces : sq \in b.pieces[color][p]}
    IN IF found = {} THEN None
       ELSE CHOOSE p \in found : \A q \in found : p <= q

knight_attacks(sq) ==
    LET file == sq % 8
        rank == sq \div 8
    IN (IF file > 0 /\ rank < 6 THEN {sq + 15} ELSE {})
       \cup (IF file < 7 /\ rank < 6 THEN {sq + 17} ELSE {})
       \cup (IF file > 1 /\ rank < 7 THEN {sq + 6} ELSE {})
       \cup (IF file < 6 /\ rank < 7 THEN {sq + 10} ELSE {})
       \cup (IF file > 0 /\ rank > 1 THEN {sq - 17} ELSE {})
       \cup (IF file < 7 /\ rank > 1 THEN {sq - 15} ELSE {})
       \cup (IF file > 1 /\ rank > 0 THEN {sq - 10} ELSE {})
       \cup (IF file < 6 /\ rank > 0 THEN {sq - 6} ELSE {})

king_attacks(sq) ==
    LET file == sq % 8
        rank == sq \div 8
    IN (IF rank < 7 THEN {sq + 8} ELSE {})
       \cup (IF rank > 0 THEN {sq - 8} ELSE {})
       \cup (IF file > 0 THEN {sq - 1} ELSE {})
       \cup (IF file < 7 THEN {sq + 1} ELSE {})
       \cup (IF file > 0 /\ rank < 7 THEN {sq + 7} ELSE {})
       \cup (IF file < 7 /\ rank < 7 THEN {sq + 9} ELSE {})
       \cup (IF file > 0 /\ rank > 0 THEN {sq - 9} ELSE {})
       \cup (IF file < 7 /\ rank > 0 THEN {sq - 7} ELSE {})

\* one ray of sliding_attacks: step from (r, f) by (dr, df), adding every
\* square up to the board's edge or the first blocker, the blocker included
RECURSIVE Ray(_, _, _, _, _)
Ray(r, f, dr, df, blockers) ==
    LET r2 == r + dr
        f2 == f + df
        target == r2 * 8 + f2
    IN IF r2 < 0 \/ r2 > 7 \/ f2 < 0 \/ f2 > 7 THEN {}
       ELSE IF target \in blockers THEN {target}
       ELSE {target} \cup Ray(r2, f2, dr, df, blockers)

DiagonalDirs == {<<1, 1>>, <<1, -1>>, <<-1, 1>>, <<-1, -1>>}
\* the straight directions without the one up the file
StraightDirs_no_up == {<<0, 1>>, <<0, -1>>, <<-1, 0>>}

StraightDirs == {<<0, 1>>, <<0, -1>>, <<1, 0>>, <<-1, 0>>}

sliding_attacks(sq, blockers, diagonal) ==
    UNION {Ray(sq \div 8, sq % 8, d[1], d[2], blockers) :
             d \in IF diagonal THEN DiagonalDirs ELSE StraightDirs}

\* the pawn squares without the file tests
pawn_attackers_wrapping(sq, by_color) ==
    IF by_color = White
    THEN (IF sq >= 9 THEN {sq - 9} ELSE {})
         \cup (IF sq >= 7 THEN {sq - 7} ELSE {})
    ELSE (IF sq < 55 THEN {sq + 9} ELSE {})
         \cup (IF sq < 57 THEN {sq + 7} ELSE {})

\* the squares from which a pawn of by_color attacks sq
pawn_attackers(sq, by_color) ==
    LET file == sq % 8
    IN IF by_color = White
       THEN (IF sq >= 9 /\ file > 0 THEN {sq - 9} ELSE {})
            \cup (IF sq >= 7 /\ file < 7 THEN {sq - 7} ELSE {})
       ELSE (IF sq < 55 /\ file < 7 THEN {sq + 9} ELSE {})
            \cup (IF sq < 57 /\ file > 0 THEN {sq + 7} ELSE {})

is_square_attacked(b, sq, by_color) ==
    LET attacker == by_color
        all_pieces == b.occupancy[White] \cup b.occupancy[Black]
    IN \/ pawn_attackers(sq, by_color) \cap b.pieces[attacker][Pawn] # {}
       \/ knight_attacks(sq) \cap b.pieces[attacker][Knight] # {}
       \/ king_attacks(sq) \cap b.pieces[attacker][King] # {}
       \/ sliding_attacks(sq, all_pieces, TRUE)
            \cap (b.pieces[attacker][Bishop] \cup b.pieces[attacker][Queen]) # {}
       \/ sliding_attacks(sq, all_pieces, FALSE)
            \cap (b.pieces[attacker][Rook] \cup b.pieces[attacker][Queen]) # {}

\* trailing_zeros of a non-empty bitboard: its lowest set bit
trailing_zeros(bb) == CHOOSE s \in bb : \A t \in bb : s <= t

is_in_check(b, color) ==
    LET king_bb == b.pieces[color][King]
    IN IF king_bb = {} THEN FALSE
       ELSE is_square_attacked(b, trailing_zeros(king_bb), opposite(color))

\* Rust's `/ 2` on i8 truncates toward zero
TruncHalf(d) == IF d >= 0 THEN d \div 2 ELSE -((-d) \div 2)

\* `self.halfmove_clock += 1` on a u8 (the wrapped value of a release build)
U8Inc(x) == (x + 1) % 256

\* the home and crossed squares of the castling rook
castle_rook(m, us) ==
    IF m.to > m.from
    THEN (IF us = White THEN <<H1, F1>> ELSE <<H8, F8>>)
    ELSE (IF us = White THEN <<A1, D1>> ELSE <<A8, D8>>)

\* the captured pawn looked for below `to` for either color
ep_captured_sq_white_always(m, side) == m.to - 8

\* the square of the pawn an en-passant capture removes
ep_captured_sq(m, side) == IF side = White THEN m.to - 8 ELSE m.to + 8

\* make_rights with the to-square tests left out: a rook captured at home
\* keeps its side's right
\* make_move's update of the rights with the king's move leaving them alone
make_rights_rook_squares_only(rights, m, moving_piece, us) ==
    LET r1 == IF m.from = A1 \/ m.to = A1 THEN rights \ {WHITE_QUEENSIDE} ELSE rights
        r2 == IF m.from = H1 \/ m.to = H1 THEN r1 \ {WHITE_KINGSIDE} ELSE r1
        r3 == IF m.from = A8 \/ m.to = A8 THEN r2 \ {BLACK_QUEENSIDE} ELSE r2
        r4 == IF m.from = H8 \/ m.to = H8 THEN r3 \ {BLACK_KINGSIDE} ELSE r3
    IN r4

make_rights_from_only(rights, m, moving_piece, us) ==
    LET r0 == IF moving_piece = King
              THEN (IF us = White
                    THEN rights \ {WHITE_KINGSIDE, WHITE_QUEENSIDE}
                    ELSE rights \ {BLACK_KINGSIDE, BLACK_QUEENSIDE})
              ELSE rights
        r1 == IF m.from = A1 THEN r0 \ {WHITE_QUEENSIDE} ELSE r0
        r2 == IF m.from = H1 THEN r1 \ {WHITE_KINGSIDE} ELSE r1
        r3 == IF m.from = A8 THEN r2 \ {BLACK_QUEENSIDE} ELSE r2
        r4 == IF m.from = H8 THEN r3 \ {BLACK_KINGSIDE} ELSE r3
    IN r4

\* make_rights with `|=` for `&= !` in the four rook-square tests
make_rights_sets_on_rook_squares(rights, m, moving_piece, us) ==
    LET r0 == IF moving_piece = King
              THEN (IF us = White
                    THEN rights \ {WHITE_KINGSIDE, WHITE_QUEENSIDE}
                    ELSE rights \ {BLACK_KINGSIDE, BLACK_QUEENSIDE})
              ELSE rights
        r1 == IF m.from = A1 \/ m.to = A1 THEN r0 \cup {WHITE_QUEENSIDE} ELSE r0
        r2 == IF m.from = H1 \/ m.to = H1 THEN r1 \cup {WHITE_KINGSIDE} ELSE r1
        r3 == IF m.from = A8 \/ m.to = A8 THEN r2 \cup {BLACK_QUEENSIDE} ELSE r2
        r4 == IF m.from = H8 \/ m.to = H8 THEN r3 \cup {BLACK_KINGSIDE} ELSE r3
    IN r4

\* make_move's update of the castling rights byte
make_rights(rights, m, moving_piece, us) ==
    LET r0 == IF moving_piece = King
              THEN (IF us = White
                    THEN rights \ {WHITE_KINGSIDE, WHITE_QUEENSIDE}
                    ELSE rights \ {BLACK_KINGSIDE, BLACK_QUEENSIDE})
              ELSE rights
        r1 == IF m.from = A1 \/ m.to = A1 THEN r0 \ {WHITE_QUEENSIDE} ELSE r0
        r2 == IF m.from = H1 \/ m.to = H1 THEN r1 \ {WHITE_KINGSIDE} ELSE r1
        r3 == IF m.from = A8 \/ m.to = A8 THEN r2 \ {BLACK_QUEENSIDE} ELSE r2
        r4 == IF m.from = H8 \/ m.to = H8 THEN r3 \ {BLACK_KINGSIDE} ELSE r3
    IN r4

\* make_move's update of the halfmove clock
make_clock(clock, m, captured, moving_piece) ==
    IF captured # None \/ m.is_en_passant \/ moving_piece = Pawn
    THEN 0
    ELSE U8Inc(clock)

\* make_en_passant with the test for a pawn left out
make_en_passant_any_piece(m, moving_piece) ==
    IF ~m.is_castle /\ ~m.is_en_passant /\ Abs(m.to - m.from) = 16
    THEN m.from + TruncHalf(m.to - m.from)
    ELSE None

\* the en-passant target make_move leaves: the skipped square of a double push
make_en_passant(m, moving_piece) ==
    IF ~m.is_castle /\ ~m.is_en_passant /\ moving_piece = Pawn
       /\ Abs(m.to - m.from) = 16
    THEN m.from + TruncHalf(m.to - m.from)
    ELSE None

\* make_captured looking among the mover's own pieces
make_captured_own_side(b, m, them) ==
    LET hit == {p \in {Pawn, Knight, Bishop, Rook, Queen} :
                  m.to \in b.pieces[opposite(them)][p]}
    IN IF m.is_en_passant \/ hit = {} THEN None
       ELSE CHOOSE p \in hit : \A q \in hit : p <= q

\* the piece make_move records as captured and removes from the to-square:
\* the first of pawn..queen (the king is not looked for), none for en passant
make_captured(b, m, them) ==
    LET hit == {p \in {Pawn, Knight, Bishop, Rook, Queen} :
                  m.to \in b.pieces[them][p]}
    IN IF m.is_en_passant \/ hit = {} THEN None
       ELSE CHOOSE p \in hit : \A q \in hit : p <= q

\* make_pieces with the castling king set on its destination and never
\* cleared from its origin
make_pieces_king_copied(pcs, m, moving_piece, us, them) ==
    LET from_mask == {m.from}
        to_mask == {m.to}
    IN IF m.is_castle
       THEN LET rk == castle_rook(m, us)
                k1 == [pcs EXCEPT ![us][King] = @ \cup to_mask]
            IN [k1 EXCEPT ![us][Rook] = XOR(@, {rk[1]} \cup {rk[2]})]
       ELSE IF m.is_en_passant
       THEN LET e1 == [pcs EXCEPT ![us][Pawn] = XOR(@, from_mask \cup to_mask)]
            IN [e1 EXCEPT ![them][Pawn] = XOR(@, {ep_captured_sq(m, us)})]
       ELSE LET n1 == [pcs EXCEPT ![us][moving_piece] =
                          XOR(@, from_mask \cup to_mask)]
            IN IF m.promotion # None
               THEN LET n2 == [n1 EXCEPT ![us][Pawn] = XOR(@, to_mask)]
                    IN [n2 EXCEPT ![us][m.promotion] = XOR(@, to_mask)]
               ELSE n1

\* make_move's toggles of the piece bitboards, after the capture's removal
make_pieces(pcs, m, moving_piece, us, them) ==
    LET from_mask == {m.from}
        to_mask == {m.to}
    IN IF m.is_castle
       THEN LET rk == castle_rook(m, us)
                k1 == [pcs EXCEPT ![us][King] = XOR(@, from_mask \cup to_mask)]
            IN [k1 EXCEPT ![us][Rook] = XOR(@, {rk[1]} \cup {rk[2]})]
       ELSE IF m.is_en_passant
       THEN LET e1 == [pcs EXCEPT ![us][Pawn] = XOR(@, from_mask \cup to_mask)]
            IN [e1 EXCEPT ![them][Pawn] = XOR(@, {ep_captured_sq(m, us)})]
       ELSE LET n1 == [pcs EXCEPT ![us][moving_piece] =
                          XOR(@, from_mask \cup to_mask)]
            IN IF m.promotion # None
               THEN LET n2 == [n1 EXCEPT ![us][Pawn] = XOR(@, to_mask)]
                    IN [n2 EXCEPT ![us][m.promotion] = XOR(@, to_mask)]
               ELSE n1

\* make_move with the lookup of the moving piece after the undo record is
\* pushed and the en-passant target cleared
make_move_records_first(b, m) ==
    LET us == b.side_to_move
        them == opposite(b.side_to_move)
        moving_piece == find_piece_at(b, m.from, us)
    IN IF moving_piece = None
       THEN [b EXCEPT !.history =
                          Append(@, [m |-> m,
                                     captured |-> None,
                                     castling_rights |-> b.castling_rights,
                                     en_passant_sq |-> b.en_passant_sq,
                                     halfmove_clock |-> b.halfmove_clock]),
                      !.en_passant_sq = None,
                      !.panicked = TRUE]
       ELSE
         LET captured == make_captured(b, m, them)
             p1 == IF captured # None
                   THEN [b.pieces EXCEPT ![them][captured] = XOR(@, {m.to})]
                   ELSE b.pieces
             undo == [m |-> m,
                      captured |-> captured,
                      castling_rights |-> b.castling_rights,
                      en_passant_sq |-> b.en_passant_sq,
                      halfmove_clock |-> b.halfmove_clock]
         IN update_occupancy(
              [pieces |-> make_pieces(p1, m, moving_piece, us, them),
               occupancy |-> b.occupancy,
               side_to_move |-> opposite(b.side_to_move),
               castling_rights |->
                   make_rights(b.castling_rights, m, moving_piece, us),
               en_passant_sq |-> make_en_passant(m, moving_piece),
               halfmove_clock |->
                   make_clock(b.halfmove_clock, m, captured, moving_piece),
               history |-> Append(b.history, undo),
               panicked |-> b.panicked])

\* make_move without the change of the side to move
make_move_keeps_side(b, m) ==
    LET us == b.side_to_move
        them == opposite(b.side_to_move)
        moving_piece == find_piece_at(b, m.from, us)
    IN IF moving_piece = None
       THEN [b EXCEPT !.panicked = TRUE]
       ELSE
         LET captured == make_captured(b, m, them)
             p1 == IF captured # None
                   THEN [b.pieces EXCEPT ![them][captured] = XOR(@, {m.to})]
                   ELSE b.pieces
             undo == [m |-> m,
                      captured |-> captured,
                      castling_rights |-> b.castling_rights,
                      en_passant_sq |-> b.en_passant_sq,
                      halfmove_clock |-> b.halfmove_clock]
         IN update_occupancy(
              [pieces |-> make_pieces(p1, m, moving_piece, us, them),
               occupancy |-> b.occupancy,
               side_to_move |-> b.side_to_move,
               castling_rights |->
                   make_rights(b.castling_rights, m, moving_piece, us),
               en_passant_sq |-> make_en_passant(m, moving_piece),
               halfmove_clock |->
                   make_clock(b.halfmove_clock, m, captured, moving_piece),
               history |-> Append(b.history, undo),
               panicked |-> b.panicked])

make_move(b, m) ==
    LET us == b.side_to_move
        them == opposite(b.side_to_move)
        moving_piece == find_piece_at(b, m.from, us)
    IN IF moving_piece = None
       THEN [b EXCEPT !.panicked = TRUE]   \* expect("no piece at from square")
       ELSE
         LET captured == make_captured(b, m, them)
             p1 == IF captured # None
                   THEN [b.pieces EXCEPT ![them][captured] = XOR(@, {m.to})]
                   ELSE b.pieces
             undo == [m |-> m,
                      captured |-> captured,
                      castling_rights |-> b.castling_rights,
                      en_passant_sq |-> b.en_passant_sq,
                      halfmove_clock |-> b.halfmove_clock]
         IN update_occupancy(
              [pieces |-> make_pieces(p1, m, moving_piece, us, them),
               occupancy |-> b.occupancy,
               side_to_move |-> opposite(b.side_to_move),
               castling_rights |->
                   make_rights(b.castling_rights, m, moving_piece, us),
               en_passant_sq |-> make_en_passant(m, moving_piece),
               halfmove_clock |->
                   make_clock(b.halfmove_clock, m, captured, moving_piece),
               history |-> Append(b.history, undo),
               panicked |-> b.panicked])

\* `self.halfmove_clock += 1` is reached with the clock at 255: the last
\* statement of make_move overflows the u8
make_move_overflows(b, m) ==
    /\ find_piece_at(b, m.from, b.side_to_move) # None
    /\ make_captured(b, m, opposite(b.side_to_move)) = None
    /\ ~m.is_en_passant
    /\ find_piece_at(b, m.from, b.side_to_move) # Pawn
    /\ b.halfmove_clock = 255

\* make_move in a build with overflow checks: the overflowing increment ends
\* the process with everything before it done (make_move itself carries the
\* wrapped value of a build without them)
make_move_checked(b, m) ==
    IF make_move_overflows(b, m)
    THEN [make_move(b, m) EXCEPT !.halfmove_clock = b.halfmove_clock,
                                 !.panicked = TRUE]
    ELSE make_move(b, m)

\* unmake_pieces that never puts the captured piece back
unmake_pieces_drops_capture(b, undo, us, them) ==
    LET m == undo.m
        pcs == b.pieces
        from_mask == {m.from}
        to_mask == {m.to}
    IN IF m.is_castle
       THEN LET rk == castle_rook(m, us)
                k1 == [pcs EXCEPT ![us][King] = XOR(@, from_mask \cup to_mask)]
            IN [k1 EXCEPT ![us][Rook] = XOR(@, {rk[1]} \cup {rk[2]})]
       ELSE IF m.is_en_passant
       THEN LET e1 == [pcs EXCEPT ![us][Pawn] = XOR(@, from_mask \cup to_mask)]
            IN [e1 EXCEPT ![them][Pawn] = XOR(@, {ep_captured_sq(m, us)})]
       ELSE IF m.promotion # None
       THEN LET q1 == [pcs EXCEPT ![us][m.promotion] = XOR(@, to_mask)]
            IN [q1 EXCEPT ![us][Pawn] = XOR(@, from_mask)]
       ELSE LET moving_piece == find_piece_at(b, m.to, us)
            IN [pcs EXCEPT ![us][moving_piece] = XOR(@, from_mask \cup to_mask)]

\* unmake_move's toggles of the piece bitboards; us is the side that moved
unmake_pieces(b, undo, us, them) ==
    LET m == undo.m
        pcs == b.pieces
        from_mask == {m.from}
        to_mask == {m.to}
    IN IF m.is_castle
       THEN LET rk == castle_rook(m, us)
                k1 == [pcs EXCEPT ![us][King] = XOR(@, from_mask \cup to_mask)]
            IN [k1 EXCEPT ![us][Rook] = XOR(@, {rk[1]} \cup {rk[2]})]
       ELSE IF m.is_en_passant
       THEN LET e1 == [pcs EXCEPT ![us][Pawn] = XOR(@, from_mask \cup to_mask)]
            IN [e1 EXCEPT ![them][Pawn] = XOR(@, {ep_captured_sq(m, us)})]
       ELSE LET n1 == IF m.promotion # None
                      THEN LET q1 == [pcs EXCEPT ![us][m.promotion] =
                                         XOR(@, to_mask)]
                           IN [q1 EXCEPT ![us][Pawn] = XOR(@, from_mask)]
                      ELSE LET moving_piece == find_piece_at(b, m.to, us)
                           IN [pcs EXCEPT ![us][moving_piece] =
                                  XOR(@, from_mask \cup to_mask)]
            IN IF undo.captured # None
               THEN [n1 EXCEPT ![them][undo.captured] = XOR(@, to_mask)]
               ELSE n1

\* the normal, non-promotion branch's expect("no piece at to square")
unmake_finds_piece(b, undo, us) ==
    \/ undo.m.is_castle
    \/ undo.m.is_en_passant
    \/ undo.m.promotion # None
    \/ find_piece_at(b, undo.m.to, us) # None

unmake_move(b) ==
    IF b.history = <<>>
    THEN [b EXCEPT !.panicked = TRUE]      \* expect("no move to unmake")
    ELSE
      LET n == Len(b.history)
          undo == b.history[n]
          us == opposite(b.side_to_move)
          them == b.side_to_move
      IN IF ~unmake_finds_piece(b, undo, us)
         THEN [b EXCEPT !.history = SubSeq(b.history, 1, n - 1),
                        !.side_to_move = us,
                        !.panicked = TRUE]
         ELSE update_occupancy(
                [pieces |-> unmake_pieces(b, undo, us, them),
                 occupancy |-> b.occupancy,
                 side_to_move |-> us,
                 castling_rights |-> undo.castling_rights,
                 en_passant_sq |-> undo.en_passant_sq,
                 halfmove_clock |-> undo.halfmove_clock,
                 history |-> SubSeq(b.history, 1, n - 1),
                 panicked |-> b.panicked])

is_capture(b, m) ==
    \/ m.is_en_passant
    \/ m.to \in b.occupancy[opposite(b.side_to_move)]


\* ------------------------------------------------------------------ movegen.rs

\* precompute_knight_attacks / precompute_king_attacks: the tables built once
KNIGHT_ATTACKS ==
    [sq \in Squares |->
        LET file == sq % 8
            rank == sq \div 8
        IN (IF file > 0 /\ rank < 6 THEN {sq + 15} ELSE {})
           \cup (IF file < 7 /\ rank < 6 THEN {sq + 17} ELSE {})
           \cup (IF file > 1 /\ rank < 7 THEN {sq + 6} ELSE {})
           \cup (IF file < 6 /\ rank < 7 THEN {sq + 10} ELSE {})
           \cup (IF file > 0 /\ rank > 1 THEN {sq - 17} ELSE {})
           \cup (IF file < 7 /\ rank > 1 THEN {sq - 15} ELSE {})
           \cup (IF file > 1 /\ rank > 0 THEN {sq - 10} ELSE {})
           \cup (IF file < 6 /\ rank > 0 THEN {sq - 6} ELSE {})]

KING_ATTACKS ==
    [sq \in Squares |->
        LET file == sq % 8
            rank == sq \div 8
        IN (IF rank < 7 THEN {sq + 8} ELSE {})
           \cup (IF rank > 0 THEN {sq - 8} ELSE {})
           \cup (IF file > 0 THEN {sq - 1} ELSE {})
           \cup (IF file < 7 THEN {sq + 1} ELSE {})
           \cup (IF file > 0 /\ rank < 7 THEN {sq + 7} ELSE {})
           \cup (IF file < 7 /\ rank < 7 THEN {sq + 9} ELSE {})
           \cup (IF file > 0 /\ rank > 0 THEN {sq - 9} ELSE {})
           \cup (IF file < 7 /\ rank > 0 THEN {sq - 7} ELSE {})]

\* movegen.rs's own copy of the ray walk
mg_sliding_attacks(sq, blockers, diagonal) ==
    UNION {Ray(sq \div 8, sq % 8, d[1], d[2], blockers) :
             d \in IF diagonal THEN DiagonalDirs ELSE StraightDirs}

PromoKinds == <<Queen, Rook, Bishop, Knight>>

start_rank_mask(us) == IF us = White THEN 8..15 ELSE 48..55
promo_rank_mask(us) == IF us = White THEN 56..63 ELSE 0..7
push_dir(us) == IF us = White THEN 8 ELSE -8
capture_dirs(us) == IF us = White THEN <<7, 9>> ELSE <<-7, -9>>

\* the single step alone, without the double push from the start rank
pawn_pushes_single_only(b, us, from) ==
    LET empty == Squares \ (b.occupancy[White] \cup b.occupancy[Black])
        to == from + push_dir(us)
    IN IF to \notin empty THEN <<>>
       ELSE IF to \in promo_rank_mask(us)
       THEN [i \in 1..4 |-> Move(from, to, PromoKinds[i], FALSE, FALSE)]
       ELSE <<Move(from, to, None, FALSE, FALSE)>>

\* the single and double pushes of the pawn on `from`
pawn_pushes(b, us, from) ==
    LET empty == Squares \ (b.occupancy[White] \cup b.occupancy[Black])
        to == from + push_dir(us)
        double_to == to + push_dir(us)
    IN IF to \notin empty THEN <<>>
       ELSE IF to \in promo_rank_mask(us)
       THEN [i \in 1..4 |-> Move(from, to, PromoKinds[i], FALSE, FALSE)]
       ELSE <<Move(from, to, None, FALSE, FALSE)>>
            \o (IF from \in start_rank_mask(us) /\ double_to \in empty
                THEN <<Move(from, double_to, None, FALSE, FALSE)>>
                ELSE <<>>)

\* pawn_capture without the last-rank test: a capture onto the last rank is
\* one plain move
pawn_capture_plain(b, us, from, dir) ==
    LET enemies == b.occupancy[opposite(us)]
        cap_to == from + dir
    IN IF cap_to < 0 \/ cap_to >= 64 THEN <<>>
       ELSE IF Abs((from % 8) - (cap_to % 8)) # 1 THEN <<>>
       ELSE IF cap_to \in enemies
       THEN <<Move(from, cap_to, None, FALSE, FALSE)>>
       ELSE IF b.en_passant_sq # None /\ cap_to = b.en_passant_sq
       THEN <<Move(from, cap_to, None, FALSE, TRUE)>>
       ELSE <<>>

\* the capture of the pawn on `from` in direction dir, en passant included
pawn_capture(b, us, from, dir) ==
    LET enemies == b.occupancy[opposite(us)]
        cap_to == from + dir
    IN IF cap_to < 0 \/ cap_to >= 64 THEN <<>>
       ELSE IF Abs((from % 8) - (cap_to % 8)) # 1 THEN <<>>
       ELSE IF cap_to \in enemies
       THEN (IF cap_to \in promo_rank_mask(us)
             THEN [i \in 1..4 |-> Move(from, cap_to, PromoKinds[i], FALSE, FALSE)]
             ELSE <<Move(from, cap_to, None, FALSE, FALSE)>>)
       ELSE IF b.en_passant_sq # None /\ cap_to = b.en_passant_sq
       THEN <<Move(from, cap_to, None, FALSE, TRUE)>>
       ELSE <<>>

\* one turn of generate_pawn_moves' loop over the pawns
pawn_moves_from(b, us, from) ==
    LET to == from + push_dir(us)
    IN IF to < 0 \/ to >= 64 THEN <<>>      \* `if to >= 64 { continue; }`
       ELSE pawn_pushes(b, us, from)
            \o pawn_capture(b, us, from, capture_dirs(us)[1])
            \o pawn_capture(b, us, from, capture_dirs(us)[2])

generate_pawn_moves(b, us) ==
    FlatMap(BitIter(b.pieces[us][Pawn]), LAMBDA from : pawn_moves_from(b, us, from))

\* one plain move per set bit of `attacks`, lowest first
moves_to(from, attacks) ==
    LET tos == BitIter(attacks)
    IN [i \in 1..Len(tos) |-> Move(from, tos[i], None, FALSE, FALSE)]

generate_knight_moves(b, us) ==
    LET valid_targets == Squares \ b.occupancy[us]
    IN FlatMap(BitIter(b.pieces[us][Knight]),
               LAMBDA from : moves_to(from, KNIGHT_ATTACKS[from] \cap valid_targets))

generate_bishop_moves(b, us) ==
    LET valid_targets == Squares \ b.occupancy[us]
        all_pieces == b.occupancy[White] \cup b.occupancy[Black]
    IN FlatMap(BitIter(b.pieces[us][Bishop]),
               LAMBDA from : moves_to(from,
                   mg_sliding_attacks(from, all_pieces, TRUE) \cap valid_targets))

generate_rook_moves(b, us) ==
    LET valid_targets == Squares \ b.occupancy[us]
        all_pieces == b.occupancy[White] \cup b.occupancy[Black]
    IN FlatMap(BitIter(b.pieces[us][Rook]),
               LAMBDA from : moves_to(from,
                   mg_sliding_attacks(from, all_pieces, FALSE) \cap valid_targets))

generate_queen_moves(b, us) ==
    LET valid_targets == Squares \ b.occupancy[us]
        all_pieces == b.occupancy[White] \cup b.occupancy[Black]
    IN FlatMap(BitIter(b.pieces[us][Queen]),
               LAMBDA from : moves_to(from,
                   (mg_sliding_attacks(from, all_pieces, TRUE)
                      \cup mg_sliding_attacks(from, all_pieces, FALSE))
                   \cap valid_targets))

generate_king_moves(b, us) ==
    LET valid_targets == Squares \ b.occupancy[us]
    IN FlatMap(BitIter(b.pieces[us][King]),
               LAMBDA from : moves_to(from, KING_ATTACKS[from] \cap valid_targets))

\* castle_arm without the test of the square the king steps over
castle_arm_no_step(b, enemy, right, between, step, dest, from) ==
    IF /\ right \in b.castling_rights
       /\ (b.occupancy[White] \cup b.occupancy[Black]) \cap between = {}
       /\ ~is_square_attacked(b, dest, enemy)
    THEN <<Move(from, dest, None, TRUE, FALSE)>>
    ELSE <<>>

\* one arm of generate_castling_moves: the right bit, the squares that must
\* be empty (the mask 0x60, 0x0E, ...), the two squares that must not be
\* attacked, and the king's move
castle_arm(b, enemy, right, between, step, dest, from) ==
    IF /\ right \in b.castling_rights
       /\ (b.occupancy[White] \cup b.occupancy[Black]) \cap between = {}
       /\ ~is_square_attacked(b, step, enemy)
       /\ ~is_square_attacked(b, dest, enemy)
    THEN <<Move(from, dest, None, TRUE, FALSE)>>
    ELSE <<>>

generate_castling_moves(b, us) ==
    LET enemy == opposite(us)
    IN IF is_in_check(b, us) THEN <<>>
       ELSE IF us = White
       THEN castle_arm(b, enemy, WHITE_KINGSIDE, {F1, G1}, F1, G1, E1)
            \o castle_arm(b, enemy, WHITE_QUEENSIDE, {B1, C1, D1}, D1, C1, E1)
       ELSE castle_arm(b, enemy, BLACK_KINGSIDE, {F8, G8}, F8, G8, E8)
            \o castle_arm(b, enemy, BLACK_QUEENSIDE, {B8, C8, D8}, D8, C8, E8)

\* the moves before the legality filter
pseudo_legal_moves(b) ==
    LET us == b.side_to_move
    IN generate_pawn_moves(b, us)
       \o generate_knight_moves(b, us)
       \o generate_bishop_moves(b, us)
       \o generate_rook_moves(b, us)
       \o generate_queen_moves(b, us)
       \o generate_king_moves(b, us)
       \o generate_castling_moves(b, us)

\* is_legal asking about the side to move after the make: the opponent
is_legal_wrong_side(b, m) ==
    LET test_board == make_move(b, m)
    IN ~is_in_check(test_board, test_board.side_to_move)

\* the move is tried on a clone of the board
\* is_legal letting every candidate through
is_legal_any(b, m) == TRUE

is_legal(b, m) ==
    LET test_board == make_move(b, m)
    IN ~is_in_check(test_board, b.side_to_move)

generate_moves(b) ==
    SelectSeq(pseudo_legal_moves(b), LAMBDA m : is_legal(b, m))

\* the filter's make_move, on the clone, finds no piece of the side to move
\* on some candidate's from-square: expect("no piece at from square") ends
\* the process inside generate_moves.  The piece generators take `from` off
\* the mover's own bitboards, so only a candidate of generate_castling_moves,
\* whose `from` is the constant E1 or E8, can be such a candidate.
generate_moves_panics(b) ==
    \E m \in Range(generate_castling_moves(b, b.side_to_move)) :
        find_piece_at(b, m.from, b.side_to_move) = None

\* with overflow checks, a probe of is_legal overflows the clock of the clone
\* and generate_moves ends the process
probe_overflows(b) ==
    /\ b.halfmove_clock = 255
    /\ \E m \in Range(pseudo_legal_moves(b)) : make_move_overflows(b, m)

\* is_legal probes the move in place, on the position it was handed
is_legal_caller_in_place(b, m) == make_move(b, m)

\* The position the caller of is_legal holds when it returns: the move was
\* made on test_board, a clone that is dropped, never on the caller's own.
is_legal_caller(b, m) ==
    LET test_board == b
        probed == make_move(test_board, m)
    IN b

\* moves.retain(|m| is_legal(board, *m)): the caller's position after the
\* candidates from the k-th on have been probed
RECURSIVE retain_caller(_, _, _)
retain_caller(b, moves, k) ==
    IF k > Len(moves) \/ b.panicked THEN b
    ELSE retain_caller(is_legal_caller(b, moves[k]), moves, k + 1)

\* the caller's position after generate_moves has returned
generate_moves_caller(b) == retain_caller(b, pseudo_legal_moves(b), 1)


\* ------------------------------------------------------------------ eval.rs

PIECE_VALUES == <<100, 320, 330, 500, 900, 20000>>

\* the piece-square tables, entry sq + 1 for square sq
PAWN_PST ==
    <<   0,   0,   0,   0,   0,   0,   0,   0,
        50,  50,  50,  50,  50,  50,  50,  50,
        10,  10,  20,  30,  30,  20,  10,  10,
         5,   5,  10,  25,  25,  10,   5,   5,
         0,   0,   0,  20,  20,   0,   0,   0,
         5,  -5, -10,   0,   0, -10,  -5,   5,
         5,  10,  10, -20, -20,  10,  10,   5,
         0,   0,   0,   0,   0,   0,   0,   0 >>

KNIGHT_PST ==
    << -50, -40, -30, -30, -30, -30, -40, -50,
       -40, -20,   0,   0,   0,   0, -20, -40,
       -30,   0,  10,  15,  15,  10,   0, -30,
       -30,   5,  15,  20,  20,  15,   5, -30,
       -30,   0,  15,  20,  20,  15,   0, -30,
       -30,   5,  10,  15,  15,  10,   5, -30,
       -40, -20,   0,   5,   5,   0, -20, -40,
       -50, -40, -30, -30, -30, -30, -40, -50 >>

BISHOP_PST ==
    << -20, -10, -10, -10, -10, -10, -10, -20,
       -10,   0,   0,   0,   0,   0,   0, -10,
       -10,   0,   5,  10,  10,   5,   0, -10,
       -10,   5,   5,  10,  10,   5,   5, -10,
       -10,   0,  10,  10,  10,  10,   0, -10,
       -10,  10,  10,  10,  10,  10,  10, -10,
       -10,   5,   0,   0,   0,   0,   5, -10,
       -20, -10, -10, -10, -10, -10, -10, -20 >>

ROOK_PST ==
    <<   0,   0,   0,   0,   0,   0,   0,   0,
         5,  10,  10,  10,  10,  10,  10,   5,
        -5,   0,   0,   0,   0,   0,   0,  -5,
        -5,   0,   0,   0,   0,   0,   0,  -5,
        -5,   0,   0,   0,   0,   0,   0,  -5,
        -5,   0,   0,   0,   0,   0,   0,  -5,
        -5,   0,   0,   0,   0,   0,   0,  -5,
         0,   0,   0,   5,   5,   0,   0,   0 >>

QUEEN_PST ==
    << -20, -10, -10,  -5,  -5, -10, -10, -20,
       -10,   0,   0,   0,   0,   0,   0, -10,
       -10,   0,   5,   5,   5,   5,   0, -10,
        -5,   0,   5,   5,   5,   5,   0,  -5,
         0,   0,   5,   5,   5,   5,   0,  -5,
       -10,   5,   5,   5,   5,   5,   0, -10,
       -10,   0,   5,   0,   0,   0,   0, -10,
       -20, -10, -10,  -5,  -5, -10, -10, -20 >>

KING_PST ==
    << -30, -40, -40, -50, -50, -40, -40, -30,
       -30, -40, -40, -50, -50, -40, -40, -30,
       -30, -40, -40, -50, -50, -40, -40, -30,
       -30, -40, -40, -50, -50, -40, -40, -30,
       -20, -30, -30, -40, -40, -30, -30, -20,
       -10, -20, -20, -20, -20, -20, -20, -10,
        20,  20,   0,   0,   0,   0,  20,  20,
        20,  30,  10,   0,   0,  10,  30,  20 >>

get_pst(piece) ==
    CASE piece = Pawn   -> PAWN_PST
      [] piece = Knight -> KNIGHT_PST
      [] piece = Bishop -> BISHOP_PST
      [] piece = Rook   -> ROOK_PST
      [] piece = Queen  -> QUEEN_PST
      [] piece = King   -> KING_PST

\* flip_square leaving the square as it is
flip_square_none(sq) == sq

\* sq ^ 56 for a square 0..63: 56 is 0b111000, so the three rank bits flip
\* (rank r becomes 7 - r) and the file bits stay
flip_square(sq) == (7 - (sq \div 8)) * 8 + (sq % 8)

RECURSIVE Sum(_)
Sum(seq) == IF seq = <<>> THEN 0 ELSE Head(seq) + Sum(Tail(seq))

\* what the loop over one piece kind adds to the score
piece_score(b, piece) ==
    LET piece_val == PIECE_VALUES[piece + 1]
        pst == get_pst(piece)
        white == BitIter(b.pieces[White][piece])
        black == BitIter(b.pieces[Black][piece])
    IN Sum([i \in 1..Len(white) |-> piece_val + pst[white[i] + 1]])
       - Sum([i \in 1..Len(black) |-> piece_val + pst[flip_square(black[i]) + 1]])

\* material and piece-square sum of the white pieces minus the black ones
material_pst(b) == Sum([i \in 1..6 |-> piece_score(b, i - 1)])

\* evaluate without the final negation for black: always white's view
evaluate_white_view(b) ==
    LET score0 == material_pst(b)
    IN IF is_in_check(b, b.side_to_move)
       THEN score0 - 50 * (IF b.side_to_move = White THEN 1 ELSE -1)
       ELSE score0

\* evaluate with the penalty of 50 taken from the accumulated score
\* whichever side is to move
evaluate_penalty_unsigned(b) ==
    LET score0 == material_pst(b)
        score == IF is_in_check(b, b.side_to_move) THEN score0 - 50 ELSE score0
    IN IF b.side_to_move = White THEN score ELSE -score

evaluate(b) ==
    LET score0 == material_pst(b)
        score == IF is_in_check(b, b.side_to_move)
                 THEN score0 - 50 * (IF b.side_to_move = White THEN 1 ELSE -1)
                 ELSE score0
    IN IF b.side_to_move = White THEN score ELSE -score

\* ------------------------------------------------------------------ play

\* Games from the starting position, each ply written <<from-file, from-rank,
\* to-file, to-rank>> (file a = 1).  The model plays them move by move, every
\* move taken from generate_moves, and from the end of each explores every
\* generated move for MaxFree further plies.
MaxFree == 1

\* 1.e4 e5 2.Nf3 Nc6 3.Bc4 Bc5
LineItalian ==
    << <<5,2,5,4>>, <<5,7,5,5>>, <<7,1,6,3>>, <<2,8,3,6>>, <<6,1,3,4>>,
       <<6,8,3,5>> >>

\* 1.e4 a6 2.e5 d5
LineEnPassant ==
    << <<5,2,5,4>>, <<1,7,1,6>>, <<5,4,5,5>>, <<4,7,4,5>> >>

\* 1.h4 g5 2.hxg5 h6 3.gxh6 Nf6 4.h7 Rg8
LinePromotion ==
    << <<8,2,8,4>>, <<7,7,7,5>>, <<8,4,7,5>>, <<8,7,8,6>>, <<7,5,8,6>>,
       <<7,8,6,6>>, <<8,6,8,7>>, <<8,8,7,8>> >>

\* 1.e4 d5 2.Bb5+
LineCheck ==
    << <<5,2,5,4>>, <<4,7,4,5>>, <<6,1,2,5>> >>

\* 1.f3 e5 2.g4
LineBeforeMate ==
    << <<6,2,6,3>>, <<5,7,5,5>>, <<7,2,7,4>> >>

Lines ==
    { <<>>,
      \* 1.f4 e5 2.fxe5 f6 3.exf6 Nxf6 4.Nf3 Bc5 5.e3 O-O 6.Be2 Nd5 7.Nd4 a6
      << <<6,2,6,4>>, <<5,7,5,5>>, <<6,4,5,5>>, <<6,7,6,6>>, <<5,5,6,6>>,
         <<7,8,6,6>>, <<7,1,6,3>>, <<6,8,3,5>>, <<5,2,5,3>>, <<5,8,7,8>>,
         <<6,1,5,2>>, <<6,6,4,5>>, <<6,3,4,4>>, <<1,7,1,6>> >>,
      LineItalian,
      \* ... 4.O-O d6 5.d3 Bg4 6.Nc3 Qd7 7.Be3
      << <<5,2,5,4>>, <<5,7,5,5>>, <<7,1,6,3>>, <<2,8,3,6>>, <<6,1,3,4>>,
         <<6,8,3,5>>, <<5,1,7,1>>, <<4,7,4,6>>, <<4,2,4,3>>, <<3,8,7,4>>,
         <<2,1,3,3>>, <<4,8,4,7>>, <<3,1,5,3>> >>,
      \* 1.d4 d5 2.Nc3 Nc6 3.Bf4 Bf5 4.Qd2 Qd7
      << <<4,2,4,4>>, <<4,7,4,5>>, <<2,1,3,3>>, <<2,8,3,6>>, <<3,1,6,4>>,
         <<3,8,6,5>>, <<4,1,4,2>>, <<4,8,4,7>> >>,
      \* ... 5.O-O-O O-O-O
      << <<4,2,4,4>>, <<4,7,4,5>>, <<2,1,3,3>>, <<2,8,3,6>>, <<3,1,6,4>>,
         <<3,8,6,5>>, <<4,1,4,2>>, <<4,8,4,7>>, <<5,1,3,1>>, <<5,8,3,8>> >>,
      LineEnPassant,
      \* ... 3.exd6 (en passant) cxd6
      << <<5,2,5,4>>, <<1,7,1,6>>, <<5,4,5,5>>, <<4,7,4,5>>, <<5,5,4,6>>,
         <<3,7,4,6>> >>,
      \* ... 3.h3 f5
      << <<5,2,5,4>>, <<1,7,1,6>>, <<5,4,5,5>>, <<4,7,4,5>>, <<8,2,8,3>>,
         <<6,7,6,5>> >>,
      \* ... 3.h3 h6
      << <<5,2,5,4>>, <<1,7,1,6>>, <<5,4,5,5>>, <<4,7,4,5>>, <<8,2,8,3>>,
         <<8,7,8,6>> >>,
      \* 1.a3 d5 2.a4 d4 3.e4
      << <<1,2,1,3>>, <<4,7,4,5>>, <<1,3,1,4>>, <<4,5,4,4>>, <<5,2,5,4>> >>,
      \* ... 3...dxe3 (en passant) 4.fxe3
      << <<1,2,1,3>>, <<4,7,4,5>>, <<1,3,1,4>>, <<4,5,4,4>>, <<5,2,5,4>>,
         <<4,4,5,3>>, <<6,2,5,3>> >>,
      LinePromotion,
      \* ... 5.hxg8=Q Nxg8
      << <<8,2,8,4>>, <<7,7,7,5>>, <<8,4,7,5>>, <<8,7,8,6>>, <<7,5,8,6>>,
         <<7,8,6,6>>, <<8,6,8,7>>, <<8,8,7,8>>, <<8,7,7,8>>, <<6,6,7,8>> >>,
      \* 1.h4 g5 2.hxg5 h6 3.g6 a6 4.g7 a5
      << <<8,2,8,4>>, <<7,7,7,5>>, <<8,4,7,5>>, <<8,7,8,6>>, <<7,5,7,6>>,
         <<1,7,1,6>>, <<7,6,7,7>>, <<1,6,1,5>> >>,
      \* ... 5.gxh8=Q
      << <<8,2,8,4>>, <<7,7,7,5>>, <<8,4,7,5>>, <<8,7,8,6>>, <<7,5,7,6>>,
         <<1,7,1,6>>, <<7,6,7,7>>, <<1,6,1,5>>, <<7,7,8,8>> >>,
      \* 1.a3 h5 2.g4 hxg4 3.h3 gxh3 4.Nf3 h2 5.Rg1
      << <<1,2,1,3>>, <<8,7,8,5>>, <<7,2,7,4>>, <<8,5,7,4>>, <<8,2,8,3>>,
         <<7,4,8,3>>, <<7,1,6,3>>, <<8,3,8,2>>, <<8,1,7,1>> >>,
      LineCheck,
      \* ... 2...Nc6 3.a3 (the knight on c6 is pinned)
      << <<5,2,5,4>>, <<4,7,4,5>>, <<6,1,2,5>>, <<2,8,3,6>>, <<1,2,1,3>> >>,
      LineBeforeMate,
      \* ... 2...Qh4 mate
      << <<6,2,6,3>>, <<5,7,5,5>>, <<7,2,7,4>>, <<4,8,8,4>> >>,
      \* 1.g3 b6 2.Bg2 h6 3.Bxa8 (a rook taken on its home corner)
      << <<7,2,7,3>>, <<2,7,2,6>>, <<6,1,7,2>>, <<8,7,8,6>>, <<7,2,1,8>> >> }

PlySq(file, rank) == (rank - 1) * 8 + (file - 1)
PlyFrom(ply) == PlySq(ply[1], ply[2])
PlyTo(ply) == PlySq(ply[3], ply[4])

IsPrefix(p, l) ==
    /\ Len(p) <= Len(l)
    /\ \A i \in 1..Len(p) : p[i] = l[i]

\* the from and to squares of the moves on the undo stack, oldest first
Played(b) ==
    [i \in 1..Len(b.history) |->
        <<b.history[i].m.from, b.history[i].m.to>>]

LineSquares(l) == [i \in 1..Len(l) |-> <<PlyFrom(l[i]), PlyTo(l[i])>>]

\* the game so far is the start of a line that m continues
FollowsLine(p, m) ==
    \E l \in Lines :
        /\ Len(p) < Len(l)
        /\ IsPrefix(p, LineSquares(l))
        /\ <<m.from, m.to>> = LineSquares(l)[Len(p) + 1]
        /\ m.promotion \in {None, Queen}

\* the game so far is a whole line and fewer than MaxFree plies more
PastLine(p) ==
    \E l \in Lines :
        /\ IsPrefix(LineSquares(l), p)
        /\ Len(p) < Len(l) + MaxFree

CanContinue(p) ==
    \/ PastLine(p)
    \/ \E l \in Lines : Len(p) < Len(l) /\ IsPrefix(p, LineSquares(l))

Init ==
    /\ board = NewBoard
    /\ pc = "play"
    /\ root = NewBoard
    /\ depth0 = 0
    /\ stack = <<>>
    /\ rv = 0
    /\ result = <<>>
    /\ cutoff_seen = FALSE
    /\ nread = 0
    /\ out = <<>>

\* the host applies a move the generator returned
Make ==
    /\ pc = "play"
    /\ ~board.panicked
    /\ CanContinue(Played(board))
    /\ IF generate_moves_panics(board)
       THEN board' = [board EXCEPT !.panicked = TRUE]
       ELSE \E m \in Range(generate_moves(board)) :
               /\ PastLine(Played(board)) \/ FollowsLine(Played(board), m)
               /\ board' = make_move(board, m)
    /\ UNCHANGED walk

\* the host takes the last move back
Unmake ==
    /\ pc = "play"
    /\ ~board.panicked
    /\ board.history # <<>>
    /\ board' = unmake_move(board)
    /\ UNCHANGED walk

Next == Make \/ Unmake

Spec == Init /\ [][Next]_vars


\* ------------------------------------------------------------------ search.rs

INF == 100000

\* the depths search is asked for: up to MaxSearchDepth from the quiet roots,
\* up to MaxSpecialDepth from the roots with a special move at hand
MaxSearchDepth == 3

MaxSpecialDepth == 2

\* `depth - 1` on a u8 (the wrapped value of a release build)
U8Dec(x) == (x - 1) % 256

\* the walk is followed below nodes of at most this remaining depth
DepthCap == 8

\* the position after a line's moves, each the generator's move from and to
\* the named squares (a promotion: to a queen)
RECURSIVE ReplayFrom(_, _)
ReplayFrom(b, plies) ==
    IF plies = <<>> THEN b
    ELSE LET cands == {m \in Range(generate_moves(b)) :
                          /\ m.from = PlyFrom(Head(plies))
                          /\ m.to = PlyTo(Head(plies))
                          /\ m.promotion \in {None, Queen}}
             made == make_move(b, CHOOSE m \in cands : TRUE)
         IN IF made.panicked THEN made ELSE ReplayFrom(made, Tail(plies))

\* the positions search is called on: each has a legal move
SearchRoots ==
    {ReplayFrom(NewBoard, l) : l \in {<<>>, LineCheck, LineBeforeMate}}

\* roots where castling, an en-passant capture or a promotion is a legal move
SpecialRoots ==
    {ReplayFrom(NewBoard, l) : l \in {LineItalian, LineEnPassant, LinePromotion}}

Frame(fn, depth, alpha, beta) ==
    [fn |-> fn, depth |-> depth, alpha |-> alpha, beta |-> beta,
     moves |-> <<>>, idx |-> 1, best_move |-> <<>>, best_score |-> -INF]

Top == stack[Len(stack)]

SetTop(st, f) == [st EXCEPT ![Len(st)] = f]

Pop(st) == SubSeq(st, 1, Len(st) - 1)

\* no_moves_score with the mate scored -INF, without the `+ 1`
no_moves_score_full(b) ==
    IF is_in_check(b, b.side_to_move) THEN -INF ELSE 0

\* what negamax answers at a node without legal moves
no_moves_score(b) ==
    IF is_in_check(b, b.side_to_move) THEN -INF + 1 ELSE 0

\* the cutoff test put before the unmake: a cutoff returns with the move made
restore_skipped_on_cutoff(b, score, beta) ==
    IF score >= beta THEN b ELSE unmake_move(b)

\* the board after the recursive call returned score to a frame with window
\* top beta: the unmake comes before the cutoff test
restore_after_child(b, score, beta) == unmake_move(b)

SearchInit ==
    /\ \/ board \in SearchRoots /\ depth0 \in 1..MaxSearchDepth
       \/ board \in SpecialRoots /\ depth0 \in 1..MaxSpecialDepth
    /\ root = board
    /\ pc = "search"
    /\ stack = <<>>
    /\ rv = 0
    /\ result = <<>>
    /\ cutoff_seen = FALSE
    /\ nread = 0
    /\ out = <<>>

\* search: generate the root's moves
SearchStart ==
    /\ pc = "search"
    /\ ~generate_moves_panics(board)
    /\ stack' = <<[Frame("search", depth0, -INF, INF)
                     EXCEPT !.moves = generate_moves(board)]>>
    /\ pc' = "loop"
    /\ UNCHANGED <<board, root, depth0, nread, out, rv, result, cutoff_seen>>

\* search and negamax: make the next move and call negamax on it
LoopMake ==
    /\ pc = "loop"
    /\ Top.idx <= Len(Top.moves)
    /\ board' = make_move(board, Top.moves[Top.idx])
    /\ stack' = Append(stack,
                  IF Top.fn = "search"
                  THEN Frame("negamax", U8Dec(Top.depth), -INF, INF)
                  ELSE Frame("negamax", U8Dec(Top.depth), -Top.beta, -Top.alpha))
    /\ pc' = "call"
    /\ UNCHANGED <<root, depth0, nread, out, rv, result, cutoff_seen>>

\* negamax's start: the leaf, the node without moves, or the loop
NodeEnter ==
    /\ pc = "call"
    /\ Top.depth <= DepthCap
    /\ Top.depth = 0 \/ ~generate_moves_panics(board)
    /\ IF Top.depth = 0
       THEN /\ rv' = evaluate(board)
            /\ pc' = "ret"
            /\ UNCHANGED stack
       ELSE LET moves == generate_moves(board)
            IN IF moves = <<>>
               THEN /\ rv' = no_moves_score(board)
                    /\ pc' = "ret"
                    /\ UNCHANGED stack
               ELSE /\ stack' = SetTop(stack, [Top EXCEPT !.moves = moves])
                    /\ pc' = "loop"
                    /\ UNCHANGED rv
    /\ UNCHANGED <<board, root, depth0, nread, out, result, cutoff_seen>>

\* the loop is over: negamax returns alpha, search its best move and score
LoopEnd ==
    /\ pc = "loop"
    /\ Top.idx > Len(Top.moves)
    /\ IF Top.fn = "negamax"
       THEN /\ rv' = Top.alpha
            /\ pc' = "ret"
            /\ UNCHANGED <<board, stack, result>>
       ELSE /\ result' = [move |-> Top.best_move, score |-> Top.best_score]
            /\ stack' = <<>>
            /\ pc' = "done"
            \* best_move.expect("no legal moves")
            /\ board' = [board EXCEPT !.panicked = (Top.best_move = <<>>)]
            /\ UNCHANGED rv
    /\ UNCHANGED <<root, depth0, nread, out, cutoff_seen>>

\* negamax returned rv to its caller: unmake, then the cutoff or the update
Return ==
    /\ pc = "ret"
    /\ LET caller == stack[Len(stack) - 1]
           score == -rv
       IN /\ board' = restore_after_child(board, score, caller.beta)
          /\ IF caller.fn = "search"
             THEN /\ stack' = SetTop(Pop(stack),
                        IF score > caller.best_score
                        THEN [caller EXCEPT !.best_score = score,
                                            !.best_move = <<caller.moves[caller.idx]>>,
                                            !.idx = @ + 1]
                        ELSE [caller EXCEPT !.idx = @ + 1])
                  /\ pc' = "loop"
                  /\ UNCHANGED <<rv, cutoff_seen>>
             ELSE IF score >= caller.beta
             THEN /\ stack' = Pop(stack)
                  /\ rv' = caller.beta
                  /\ pc' = "ret"
                  /\ cutoff_seen' = TRUE
             ELSE /\ stack' = SetTop(Pop(stack),
                        [caller EXCEPT !.alpha = IF score > @ THEN score ELSE @,
                                       !.idx = @ + 1])
                  /\ pc' = "loop"
                  /\ UNCHANGED <<rv, cutoff_seen>>
    /\ UNCHANGED <<root, depth0, nread, out, result>>

SearchNext == SearchStart \/ LoopMake \/ NodeEnter \/ LoopEnd \/ Return

SpecSearch == SearchInit /\ [][SearchNext]_vars


\* ------------------------------------------------------------------ Board::from_fen

\* A text field is a sequence of one-character strings.

\* the bytes of the characters the fields below use
Ascii(c) ==
    CASE c = "a" -> 97 [] c = "b" -> 98 [] c = "c" -> 99 [] c = "d" -> 100
      [] c = "e" -> 101 [] c = "f" -> 102 [] c = "g" -> 103 [] c = "h" -> 104
      [] c = "0" -> 48 [] c = "1" -> 49 [] c = "2" -> 50 [] c = "3" -> 51
      [] c = "4" -> 52 [] c = "5" -> 53 [] c = "6" -> 54 [] c = "7" -> 55
      [] c = "8" -> 56 [] c = "9" -> 57 [] c = "-" -> 45 [] c = "/" -> 47
      [] c = "k" -> 107 [] c = "n" -> 110 [] c = "p" -> 112 [] c = "q" -> 113
      [] c = "r" -> 114 [] c = "w" -> 119 [] c = "x" -> 120
      [] c = "B" -> 66 [] c = "K" -> 75 [] c = "N" -> 78 [] c = "P" -> 80
      [] c = "Q" -> 81 [] c = "R" -> 82

\* u8 wrapping_sub
WrappingSub(x, y) == (x - y + 256) % 256

\* an i8 after `+=` or `-=` (the wrapped value of a release build)
I8(x) == ((x + 128) % 256) - 128

\* the piece and color a placement letter names, <<>> for any other character
fen_piece(c) ==
    CASE c = "P" -> <<Pawn, White>>   [] c = "N" -> <<Knight, White>>
      [] c = "B" -> <<Bishop, White>> [] c = "R" -> <<Rook, White>>
      [] c = "Q" -> <<Queen, White>>  [] c = "K" -> <<King, White>>
      [] c = "p" -> <<Pawn, Black>>   [] c = "n" -> <<Knight, Black>>
      [] c = "b" -> <<Bishop, Black>> [] c = "r" -> <<Rook, Black>>
      [] c = "q" -> <<Queen, Black>>  [] c = "k" -> <<King, Black>>
      [] OTHER -> <<>>

\* the placement loop: the piece bitboards after the characters from i on,
\* the cursor standing at sq
RECURSIVE fen_placement(_, _, _, _)
fen_placement(chars, i, sq, pcs) ==
    \* (the cursor is an i8 and pcs the bitboards: the last two disjuncts
    \* never hold, they are there for the cursor and pcs to be evaluated now)
    IF i > Len(chars) \/ sq \notin -128..127 \/ DOMAIN pcs # Colors THEN pcs
    ELSE LET c == chars[i]
         IN IF c = "/" THEN fen_placement(chars, i + 1, I8(sq - 16), pcs)
            ELSE IF c \in {"1", "2", "3", "4", "5", "6", "7", "8"}
            THEN fen_placement(chars, i + 1, I8(sq + (Ascii(c) - Ascii("0"))), pcs)
            ELSE IF fen_piece(c) = <<>>
            THEN fen_placement(chars, i + 1, sq, pcs)
            ELSE LET piece == fen_piece(c)[1]
                     color == fen_piece(c)[2]
                 IN fen_placement(chars, i + 1, I8(sq + 1),
                       IF sq >= 0 /\ sq < 64
                       THEN [pcs EXCEPT ![color][piece] = @ \cup {sq}]
                       ELSE pcs)

\* the index of the first placement character at which the i8 cursor leaves
\* -128..127 (`sq -= 16`, `sq += digit` or `sq += 1` overflows), 0 when none
\* does
RECURSIVE fen_overflow_at(_, _, _)
fen_overflow_at(chars, i, sq) ==
    IF i > Len(chars) \/ sq \notin -128..127 THEN 0
    ELSE LET c == chars[i]
             step == IF c = "/" THEN -16
                     ELSE IF c \in {"1", "2", "3", "4", "5", "6", "7", "8"}
                     THEN Ascii(c) - Ascii("0")
                     ELSE IF fen_piece(c) = <<>> THEN 0 ELSE 1
         IN IF sq + step \notin -128..127 THEN i
            ELSE fen_overflow_at(chars, i + 1, sq + step)

fen_castling(chars) ==
    (IF "K" \in Range(chars) THEN {WHITE_KINGSIDE} ELSE {})
    \cup (IF "Q" \in Range(chars) THEN {WHITE_QUEENSIDE} ELSE {})
    \cup (IF "k" \in Range(chars) THEN {BLACK_KINGSIDE} ELSE {})
    \cup (IF "q" \in Range(chars) THEN {BLACK_QUEENSIDE} ELSE {})

fen_en_passant(chars) ==
    IF chars = <<"-">> \/ Len(chars) < 2 THEN None
    ELSE LET file == WrappingSub(Ascii(chars[1]), Ascii("a"))
             rank == WrappingSub(Ascii(chars[2]), Ascii("1"))
         IN IF file < 8 /\ rank < 8 THEN rank * 8 + file ELSE None

\* str::parse::<u8>: decimal digits after an optional plus sign, None when
\* the field is no u8
RECURSIVE parse_digits(_, _, _)
parse_digits(chars, i, acc) ==
    IF i > Len(chars) THEN acc
    ELSE IF chars[i] \notin {"0", "1", "2", "3", "4", "5", "6", "7", "8", "9"}
    THEN None
    ELSE LET next == acc * 10 + (Ascii(chars[i]) - Ascii("0"))
         IN IF next > 255 THEN None ELSE parse_digits(chars, i + 1, next)

parse_u8(chars) ==
    IF chars = <<>> \/ chars = <<"+">> THEN None
    ELSE IF chars[1] = "+" THEN parse_digits(chars, 2, 0)
    ELSE parse_digits(chars, 1, 0)

from_fen(parts) ==
    LET clock == IF Len(parts) > 4 THEN parse_u8(parts[5]) ELSE None
    IN update_occupancy(
         [pieces |-> IF parts # <<>>
                     THEN fen_placement(parts[1], 1, 56,
                                        [c \in Colors |-> [p \in Pieces |-> {}]])
                     ELSE [c \in Colors |-> [p \in Pieces |-> {}]],
          occupancy |-> [c \in Colors |-> {}],
          side_to_move |-> IF Len(parts) > 1 /\ parts[2] = <<"b">>
                           THEN Black ELSE White,
          castling_rights |-> IF Len(parts) > 2 THEN fen_castling(parts[3]) ELSE {},
          en_passant_sq |-> IF Len(parts) > 3 THEN fen_en_passant(parts[4]) ELSE None,
          halfmove_clock |-> IF clock = None THEN 0 ELSE clock,
          history |-> <<>>,
          panicked |-> FALSE])

\* from_fen in a build with overflow checks (checks) or without: with them a
\* cursor that overflows ends the process in the placement loop and no
\* position is returned (the host is left with none: an empty board, panicked)
from_fen_checked(parts, checks) ==
    IF checks /\ parts # <<>> /\ fen_overflow_at(parts[1], 1, 56) > 0
    THEN [pieces |-> [c \in Colors |-> [p \in Pieces |-> {}]],
          occupancy |-> [c \in Colors |-> {}],
          side_to_move |-> White,
          castling_rights |-> {},
          en_passant_sq |-> None,
          halfmove_clock |-> 0,
          history |-> <<>>,
          panicked |-> TRUE]
    ELSE from_fen(parts)

\* the starting position: rnbqkbnr/pppppppp/8/8/8/8/PPPPPPPP/RNBQKBNR w KQkq - 0 1
FenStart ==
    << <<"r", "n", "b", "q", "k", "b", "n", "r", "/", "p", "p", "p", "p", "p", "p", "p", "p", "/", "8", "/", "8", "/", "8", "/", "8", "/", "P", "P", "P", "P", "P", "P", "P", "P", "/", "R", "N", "B", "Q", "K", "B", "N", "R">>,
       <<"w">>,
       <<"K", "Q", "k", "q">>,
       <<"-">>,
       <<"0">>,
       <<"1">> >>

\* king and rook against king, the kingside right set: 4k3/8/8/8/8/8/8/4K2R w K - 0 1
FenRookEnding ==
    << <<"4", "k", "3", "/", "8", "/", "8", "/", "8", "/", "8", "/", "8", "/", "8", "/", "4", "K", "2", "R">>,
       <<"w">>,
       <<"K">>,
       <<"-">>,
       <<"0">>,
       <<"1">> >>

\* white king e1 against king e8 and queen d8: 3qk3/8/8/8/8/8/8/4K3 w - - 0 1
FenQueen ==
    << <<"3", "q", "k", "3", "/", "8", "/", "8", "/", "8", "/", "8", "/", "8", "/", "8", "/", "4", "K", "3">>,
       <<"w">>,
       <<"-">>,
       <<"-">>,
       <<"0">>,
       <<"1">> >>

\* black to move after e2-e4, the clock given as 12: 4k3/8/8/8/3pP3/8/8/4K3 b - e3 12 1
FenEnPassant ==
    << <<"4", "k", "3", "/", "8", "/", "8", "/", "8", "/", "3", "p", "P", "3", "/", "8", "/", "8", "/", "4", "K", "3">>,
       <<"b">>,
       <<"-">>,
       <<"e", "3">>,
       <<"1", "2">>,
       <<"1">> >>

\* a white pawn on a7 before an empty a8: 7k/P7/8/8/8/8/8/K7 w - - 0 1
FenPromotion ==
    << <<"7", "k", "/", "P", "7", "/", "8", "/", "8", "/", "8", "/", "8", "/", "8", "/", "K", "7">>,
       <<"w">>,
       <<"-">>,
       <<"-">>,
       <<"0">>,
       <<"1">> >>

\* the placement alone, with a character that names no piece: k7/8/8/8/8/8/8/K6x
FenShort ==
    << <<"k", "7", "/", "8", "/", "8", "/", "8", "/", "8", "/", "8", "/", "8", "/", "K", "6", "x">> >>

\* nine `/` after the eighth rank: the cursor goes 8, -8, -24, ... -120 and
\* the ninth step leaves the i8: k7/8/8/8/8/8/8/K7///////// w - - 0 1
FenOverflow ==
    << <<"k", "7", "/", "8", "/", "8", "/", "8", "/", "8", "/", "8", "/", "8", "/", "K", "7", "/", "/", "/", "/", "/", "/", "/", "/", "/">>,
       <<"w">>,
       <<"-">>,
       <<"-">>,
       <<"0">>,
       <<"1">> >>

\* a cursor below 0 when a queen is named, a character that names no piece,
\* then a rook at b1; fields that are no square and no number:
\* k7/8/8/8/8/8/8/K7/Qx8R w - x9 x 1
FenMalformed ==
    << <<"k", "7", "/", "8", "/", "8", "/", "8", "/", "8", "/", "8", "/", "8", "/", "K", "7", "/", "Q", "x", "8", "R">>,
       <<"w">>,
       <<"-">>,
       <<"x", "9">>,
       <<"x">>,
       <<"1">> >>

FenTexts ==
    {FenStart, FenRookEnding, FenQueen, FenEnPassant, FenPromotion, FenShort,
     FenOverflow, FenMalformed}

\* the host's position is the starting one or one built from position text;
\* then moves are made and taken back as in Spec
FenInit ==
    /\ board \in {NewBoard}
                \cup {from_fen_checked(t, checks) : t \in FenTexts, checks \in BOOLEAN}
    /\ pc = "play"
    /\ root = board
    /\ depth0 = 0
    /\ stack = <<>>
    /\ rv = 0
    /\ result = <<>>
    /\ cutoff_seen = FALSE
    /\ nread = 0
    /\ out = <<>>

SpecFen == FenInit /\ [][Next]_vars

\* ------------------------------------------------------------------ chess rules
\* The rules of chess stated on their own, for the claims to compare the
\* code's answers with.

FileOf(s) == s % 8
RankOf(s) == s \div 8
Sgn(x) == IF x > 0 THEN 1 ELSE IF x < 0 THEN -1 ELSE 0
MaxOf(x, y) == IF x >= y THEN x ELSE y

OnStraightLine(a, t) ==
    a # t /\ (FileOf(a) = FileOf(t) \/ RankOf(a) = RankOf(t))

OnDiagonal(a, t) ==
    a # t /\ Abs(FileOf(a) - FileOf(t)) = Abs(RankOf(a) - RankOf(t))

\* the squares strictly between two squares of one line
Between(a, t) ==
    LET dr == RankOf(t) - RankOf(a)
        df == FileOf(t) - FileOf(a)
        n == MaxOf(Abs(dr), Abs(df))
    IN {a + k * (8 * Sgn(dr) + Sgn(df)) : k \in 1..(n - 1)}

SquareEmpty(b, s) == \A c \in Colors : \A p \in Pieces : s \notin b.pieces[c][p]

\* a piece of kind p and color c standing on a attacks t
ChessAttacks(b, a, p, c, t) ==
    LET dr == RankOf(t) - RankOf(a)
        df == FileOf(t) - FileOf(a)
        clear == \A s \in Between(a, t) : SquareEmpty(b, s)
    IN CASE p = Pawn   -> dr = (IF c = White THEN 1 ELSE -1) /\ Abs(df) = 1
         [] p = Knight -> {Abs(dr), Abs(df)} = {1, 2}
         [] p = King   -> a # t /\ Abs(dr) <= 1 /\ Abs(df) <= 1
         [] p = Bishop -> OnDiagonal(a, t) /\ clear
         [] p = Rook   -> OnStraightLine(a, t) /\ clear
         [] p = Queen  -> (OnDiagonal(a, t) \/ OnStraightLine(a, t)) /\ clear

ChessAttacked(b, t, c) ==
    \E p \in Pieces : \E a \in b.pieces[c][p] : ChessAttacks(b, a, p, c, t)

\* the moves the generator returns in the current position
Generated == Range(generate_moves(board))

\* the last undo record
LastUndo == board.history[Len(board.history)]

\* ------------------------------------------------------------------ claims

\* C1: in every position reached from the starting position, for every move m
\* the generator returns, make_move(m) followed by unmake_move() gives back the
\* position as it was: the twelve bitboards, both occupancies, the side to
\* move, the castling rights, the en-passant target, the halfmove clock and
\* the undo stack.
C1_MakeUnmakeRestores ==
    \A m \in Generated :
        LET made == make_move(board, m)
        IN /\ ~made.panicked
           /\ Len(made.history) = Len(board.history) + 1
           /\ unmake_move(made) = board

\* a position where the generator returns a promotion that captures
C1_Witness ==
    \E m \in Generated :
        /\ m.promotion # None
        /\ is_capture(board, m)
        /\ unmake_move(make_move(board, m)) = board

\* C2: every move the generator returns, applied with make_move, leaves the
\* mover's king not attacked: is_in_check(mover) is false after the make, and
\* by the rules of chess no opposing piece attacks the king's square.
C2_MoverKingSafe ==
    \A m \in Generated :
        LET made == make_move(board, m)
            mover == board.side_to_move
        IN /\ ~is_in_check(made, mover)
           /\ \A k \in made.pieces[mover][King] :
                 ~ChessAttacked(made, k, opposite(mover))

\* the side to move is in check, has a reply, and the filter dropped a move
C2_Witness ==
    /\ is_in_check(board, board.side_to_move)
    /\ Generated # {}
    /\ Range(pseudo_legal_moves(board)) # Generated

\* C4: in every state reached by make_move and unmake_move the twelve piece
\* bitboards are pairwise disjoint, and so are the two occupancy bitboards.
C4_BitboardsDisjoint ==
    /\ \A c1 \in Colors, c2 \in Colors, p1 \in Pieces, p2 \in Pieces :
          <<c1, p1>> # <<c2, p2>>
            => board.pieces[c1][p1] \cap board.pieces[c2][p2] = {}
    /\ board.occupancy[White] \cap board.occupancy[Black] = {}

\* the last move made was a pawn capturing onto its last rank and promoting
C4_Witness ==
    /\ board.history # <<>>
    /\ LastUndo.captured # None
    /\ LastUndo.m.promotion # None
    /\ LastUndo.m.to \in board.pieces[opposite(board.side_to_move)][LastUndo.m.promotion]

\* C6: in every position reached from the starting position each side has
\* exactly one king bit set.
C6_OneKingEach ==
    \A c \in Colors : Cardinality(board.pieces[c][King]) = 1

\* the last move made was a castle: the king and a rook were both toggled
C6_Witness ==
    /\ board.history # <<>>
    /\ LastUndo.m.is_castle
    /\ LastUndo.m.to \in board.pieces[opposite(board.side_to_move)][King]


\* C8: the generator returns a castling move only if the right bit is set,
\* every square strictly between king and rook is empty, and none of the
\* king's origin, crossed and destination squares is attacked by the opponent;
\* and with white king e1, white rook h1, f1 and g1 empty, the kingside right
\* set and a black rook on f8 looking down the open f-file, e1-g1 is not
\* returned.
CastleHome(us) == IF us = White THEN A1 ELSE A8

C8_Scenario ==
    /\ board.side_to_move = White
    /\ board.pieces[White][King] = {E1}
    /\ H1 \in board.pieces[White][Rook]
    /\ SquareEmpty(board, F1) /\ SquareEmpty(board, G1)
    /\ WHITE_KINGSIDE \in board.castling_rights
    /\ F8 \in board.pieces[Black][Rook]
    /\ \A s \in Between(F8, F1) : SquareEmpty(board, s)

C8_CastleOnlyWhenAllowed ==
    /\ \A m \in Generated :
          m.is_castle =>
            LET us == board.side_to_move
                home == CastleHome(us)
                kingside == m.to > m.from
                right == IF us = White
                         THEN (IF kingside THEN WHITE_KINGSIDE ELSE WHITE_QUEENSIDE)
                         ELSE (IF kingside THEN BLACK_KINGSIDE ELSE BLACK_QUEENSIDE)
                between == IF kingside THEN {home + 5, home + 6}
                           ELSE {home + 1, home + 2, home + 3}
                path == IF kingside THEN {home + 4, home + 5, home + 6}
                        ELSE {home + 4, home + 3, home + 2}
            IN /\ m.from = home + 4
               /\ m.to = IF kingside THEN home + 6 ELSE home + 2
               /\ right \in board.castling_rights
               /\ \A s \in between : SquareEmpty(board, s)
               /\ \A s \in path : /\ ~ChessAttacked(board, s, opposite(us))
                                  /\ ~is_square_attacked(board, s, opposite(us))
    /\ C8_Scenario => \A m \in Generated : ~(m.from = E1 /\ m.to = G1)

\* the scenario's position is reached, white has moves and none is a castle
C8_Witness ==
    /\ C8_Scenario
    /\ ~is_in_check(board, White)
    /\ Generated # {}
    /\ \A m \in Generated : ~m.is_castle

\* C9: make_move clears both rights of the mover when its king moves, and the
\* right of a home rook square whenever the move leaves from or arrives on
\* that square; it changes no other right bit.
C9_Cleared(m) ==
    LET us == board.side_to_move
    IN (IF m.from \in board.pieces[us][King]
        THEN (IF us = White THEN {WHITE_KINGSIDE, WHITE_QUEENSIDE}
              ELSE {BLACK_KINGSIDE, BLACK_QUEENSIDE})
        ELSE {})
       \cup (IF A1 \in {m.from, m.to} THEN {WHITE_QUEENSIDE} ELSE {})
       \cup (IF H1 \in {m.from, m.to} THEN {WHITE_KINGSIDE} ELSE {})
       \cup (IF A8 \in {m.from, m.to} THEN {BLACK_QUEENSIDE} ELSE {})
       \cup (IF H8 \in {m.from, m.to} THEN {BLACK_KINGSIDE} ELSE {})

C9_RightsCleared ==
    \A m \in Generated :
        make_move(board, m).castling_rights
            = board.castling_rights \ C9_Cleared(m)

\* a rook was just captured on its home square h8 while black still had the
\* kingside right: the right is gone, black's other right is not
C9_Witness ==
    /\ board.history # <<>>
    /\ LastUndo.m.to = H8
    /\ LastUndo.captured = Rook
    /\ BLACK_KINGSIDE \in LastUndo.castling_rights
    /\ BLACK_QUEENSIDE \in LastUndo.castling_rights
    /\ board.castling_rights = LastUndo.castling_rights \ {BLACK_KINGSIDE}

\* C10: the en-passant target is present exactly when the move applied last
\* was a pawn's double push, and is then the square the pawn skipped; the
\* generator returns en-passant moves only then, only to that square, and only
\* for pawns of the side to move standing beside the pushed pawn.
LastWasDoublePush ==
    /\ board.history # <<>>
    /\ ~LastUndo.m.is_castle
    /\ ~LastUndo.m.is_en_passant
    /\ LastUndo.m.promotion = None
    /\ LastUndo.m.to \in board.pieces[opposite(board.side_to_move)][Pawn]
    /\ Abs(LastUndo.m.to - LastUndo.m.from) = 16

C10_EnPassantTarget ==
    /\ (board.en_passant_sq # None) <=> LastWasDoublePush
    /\ LastWasDoublePush =>
          /\ 2 * board.en_passant_sq = LastUndo.m.from + LastUndo.m.to
          /\ SquareEmpty(board, board.en_passant_sq)
    /\ \A m \in Generated :
          m.is_en_passant =>
            /\ LastWasDoublePush
            /\ m.to = board.en_passant_sq
            /\ m.from \in board.pieces[board.side_to_move][Pawn]
            /\ RankOf(m.from) = RankOf(LastUndo.m.to)
            /\ Abs(FileOf(m.from) - FileOf(LastUndo.m.to)) = 1

\* the ply after a double push that a pawn stands beside: the capture is there
C10_Witness ==
    /\ LastWasDoublePush
    /\ \E m \in Generated : m.is_en_passant /\ m.to = board.en_passant_sq


\* C3: search, called with depth >= 1 on a position with a legal move, returns
\* with the position as it received it (bitboards, side, rights, en-passant
\* target, clock, undo stack), beta cutoffs included; inside the walk every
\* frame below the top stands for exactly one move made and not yet unmade.
C3_SearchRestoresPosition ==
    /\ pc = "done" => board = root
    /\ pc \in {"loop", "call", "ret"} =>
          /\ Len(board.history) = Len(root.history) + Len(stack) - 1
          /\ SubSeq(board.history, 1, Len(root.history)) = root.history
    /\ (pc = "loop" /\ Len(stack) = 1) => board = root

\* a finished search of depth 2 or more whose walk took a beta cutoff
C3_Witness ==
    /\ pc = "done"
    /\ depth0 >= 2
    /\ cutoff_seen
    /\ result.move # <<>>
    /\ board = root

\* ------------------------------------------------------------------ perft

\* the depths of the published counts, and the counts
PerftDepths == 0..4

PerftExpected == <<1, 20, 400, 8902, 197281>>

PerftFrame(depth) ==
    [fn |-> "perft", depth |-> depth, moves |-> <<>>, idx |-> 1, count |-> 0]

PerftInit ==
    /\ board = NewBoard
    /\ root = NewBoard
    /\ depth0 \in PerftDepths
    /\ pc = "pcall"
    /\ stack = <<PerftFrame(depth0)>>
    /\ rv = 0
    /\ result = <<>>
    /\ cutoff_seen = FALSE
    /\ nread = 0
    /\ out = <<>>

\* perft's start: depth 0 is one leaf, depth 1 the number of moves
PerftEnter ==
    /\ pc = "pcall"
    /\ Top.depth = 0 \/ ~generate_moves_panics(board)
    /\ IF Top.depth = 0
       THEN /\ rv' = 1
            /\ pc' = "pret"
            /\ UNCHANGED stack
       ELSE LET moves == generate_moves(board)
            IN IF Top.depth = 1
               THEN /\ rv' = Len(moves)
                    /\ pc' = "pret"
                    /\ UNCHANGED stack
               ELSE /\ stack' = SetTop(stack, [Top EXCEPT !.moves = moves])
                    /\ pc' = "ploop"
                    /\ UNCHANGED rv
    /\ UNCHANGED <<board, root, depth0, nread, out, result, cutoff_seen>>

\* the map's closure: make the move and count below it
PerftMake ==
    /\ pc = "ploop"
    /\ Top.idx <= Len(Top.moves)
    /\ board' = make_move(board, Top.moves[Top.idx])
    /\ stack' = Append(stack, PerftFrame(Top.depth - 1))
    /\ pc' = "pcall"
    /\ UNCHANGED <<root, depth0, nread, out, rv, result, cutoff_seen>>

\* the sum is complete
PerftSum ==
    /\ pc = "ploop"
    /\ Top.idx > Len(Top.moves)
    /\ rv' = Top.count
    /\ pc' = "pret"
    /\ UNCHANGED <<board, root, depth0, nread, out, stack, result, cutoff_seen>>

\* a call returns: to the caller's closure, which unmakes, or to the host
PerftReturn ==
    /\ pc = "pret"
    /\ IF Len(stack) = 1
       THEN /\ result' = <<rv>>
            /\ stack' = <<>>
            /\ pc' = "done"
            /\ UNCHANGED board
       ELSE LET caller == stack[Len(stack) - 1]
            IN /\ board' = unmake_move(board)
               /\ stack' = SetTop(Pop(stack),
                             [caller EXCEPT !.count = @ + rv, !.idx = @ + 1])
               /\ pc' = "ploop"
               /\ UNCHANGED result
    /\ UNCHANGED <<root, depth0, nread, out, rv, cutoff_seen>>

PerftNext == PerftEnter \/ PerftMake \/ PerftSum \/ PerftReturn

SpecPerft == PerftInit /\ [][PerftNext]_vars

\* C7: perft from the starting position returns 1 at depth 0, 20 at depth 1,
\* 400 at depth 2, 8902 at depth 3 and 197281 at depth 4.
C7_PerftCounts ==
    pc = "done" => result = <<PerftExpected[depth0 + 1]>>

\* perft(4) has returned
C7_Witness ==
    /\ pc = "done"
    /\ depth0 = 4
    /\ result = <<197281>>
    /\ board = NewBoard


\* C5: after construction, from the starting configuration or from position
\* text, and after every make_move and unmake_move, the stored occupancy of
\* each color is the union of that color's six piece bitboards.
C5_OccupancyIsUnion ==
    \A c \in Colors :
        board.occupancy[c] =
            board.pieces[c][Pawn] \cup board.pieces[c][Knight]
            \cup board.pieces[c][Bishop] \cup board.pieces[c][Rook]
            \cup board.pieces[c][Queen] \cup board.pieces[c][King]

\* a position built from text after an en-passant capture was made on it:
\* the stored occupancy has lost the captured pawn and moved the capturer
C5_Witness ==
    /\ root = from_fen(FenEnPassant)
    /\ board.history # <<>>
    /\ LastUndo.m.is_en_passant
    /\ board.occupancy[Black] = {E8, 20}
    /\ board.occupancy[White] = {E1}


\* C11: applying an en-passant move the generator returns moves the capturing
\* pawn from `from` to the empty target `to` and removes the opposing pawn
\* from the square one rank behind `to` (to - 8 for white, to + 8 for black);
\* no other piece bit changes.  After 1.e4 a6 2.e5 d5 the target is d6, the
\* generator returns e5d6 marked en passant, and applying it leaves no black
\* pawn on d5.
C11_EnPassantCapture ==
    /\ \A m \in Generated :
          m.is_en_passant =>
            LET us == board.side_to_move
                them == opposite(us)
                behind == IF us = White THEN m.to - 8 ELSE m.to + 8
                made == make_move(board, m)
            IN /\ SquareEmpty(board, m.to)
               /\ m.from \in board.pieces[us][Pawn]
               /\ behind \in board.pieces[them][Pawn]
               /\ made.pieces =
                     [board.pieces EXCEPT
                        ![us][Pawn] = (@ \ {m.from}) \cup {m.to},
                        ![them][Pawn] = @ \ {behind}]
    /\ Played(board) = LineSquares(LineEnPassant) =>
          /\ board.en_passant_sq = 43
          /\ 35 \in board.pieces[Black][Pawn]
          /\ Move(36, 43, None, FALSE, TRUE) \in Generated
          /\ 35 \notin make_move(board, Move(36, 43, None, FALSE, TRUE)).pieces[Black][Pawn]

\* the position after 1.e4 a6 2.e5 d5, where e5d6 is returned
C11_Witness ==
    /\ Played(board) = LineSquares(LineEnPassant)
    /\ \E m \in Generated : m.is_en_passant /\ m.from = 36 /\ m.to = 43

\* C12: for every pawn of the side to move and every square of its last rank
\* that it reaches by a single push (the square is empty) or by a diagonal
\* capture (an opposing piece stands there), the pseudo-legal generator emits
\* exactly four moves from the pawn to that square, one for each of queen,
\* rook, bishop and knight, and none without a promotion; and every move it
\* emits with a promotion is a pawn's move onto its last rank, promoting to
\* one of those four kinds.
LastRank(us) == IF us = White THEN {s \in Squares : RankOf(s) = 7}
                ELSE {s \in Squares : RankOf(s) = 0}

\* the pawn of color us on `from` reaches `to` by a push or a capture
PawnReaches(b, us, from, to) ==
    LET fwd == IF us = White THEN 1 ELSE -1
    IN /\ RankOf(to) - RankOf(from) = fwd
       /\ \/ FileOf(to) = FileOf(from) /\ SquareEmpty(b, to)
          \/ /\ Abs(FileOf(to) - FileOf(from)) = 1
             /\ \E p \in Pieces : to \in b.pieces[opposite(us)][p]

C12_PromotionMoves ==
    LET us == board.side_to_move
        pseudo == pseudo_legal_moves(board)
    IN /\ \A from \in board.pieces[us][Pawn], to \in LastRank(us) :
             PawnReaches(board, us, from, to) =>
               LET idx == {i \in 1..Len(pseudo) :
                              pseudo[i].from = from /\ pseudo[i].to = to}
               IN /\ Cardinality(idx) = 4
                  /\ {pseudo[i].promotion : i \in idx}
                        = {Queen, Rook, Bishop, Knight}
                  /\ \A i \in idx : ~pseudo[i].is_castle /\ ~pseudo[i].is_en_passant
       /\ \A i \in 1..Len(pseudo) :
             pseudo[i].promotion # None =>
               /\ pseudo[i].from \in board.pieces[us][Pawn]
               /\ pseudo[i].to \in LastRank(us)
               /\ pseudo[i].promotion \in {Queen, Rook, Bishop, Knight}
               /\ PawnReaches(board, us, pseudo[i].from, pseudo[i].to)

\* a pawn that reaches its last rank both by a push and by a capture
C12_Witness ==
    LET us == board.side_to_move
    IN \E from \in board.pieces[us][Pawn] :
          \E t1 \in LastRank(us), t2 \in LastRank(us) :
             /\ FileOf(t1) = FileOf(from) /\ FileOf(t2) # FileOf(from)
             /\ PawnReaches(board, us, from, t1)
             /\ PawnReaches(board, us, from, t2)
             /\ Cardinality({m \in Range(pseudo_legal_moves(board)) :
                               m.from = from /\ m.promotion # None}) = 8

\* C13: with only a white king on e1, a black king on e8 and a black queen on
\* d8, white to move, the generator returns only king moves, none to a square
\* the queen attacks.  The queen on d8 attacks d1 and d2 down the d-file and
\* does not attack e2: e1-d1 and e1-d2 are not returned, and e1-e2, e1-f1 and
\* e1-f2 are.
C13_Scenario ==
    /\ board.side_to_move = White
    /\ board.pieces =
          [c \in Colors |-> [p \in Pieces |->
              IF c = White /\ p = King THEN {E1}
              ELSE IF c = Black /\ p = King THEN {E8}
              ELSE IF c = Black /\ p = Queen THEN {D8}
              ELSE {}]]

C13_KingMovesAvoidQueen ==
    C13_Scenario =>
        /\ \A m \in Generated :
              /\ m.from = E1
              /\ ~m.is_castle /\ ~m.is_en_passant /\ m.promotion = None
              /\ ~ChessAttacks(board, D8, Queen, Black, m.to)
        /\ {m.to : m \in Generated} = {E1 + 8, F1, F1 + 8}
        /\ Cardinality(Generated) = Len(generate_moves(board))

\* the scenario's position, with the generator's answer not empty
C13_Witness ==
    /\ C13_Scenario
    /\ board.history = <<>>
    /\ Generated # {}

\* C13 as stated: in that position only king moves to squares the queen does
\* not attack are returned, e1-e2 is not returned and e1-f1 is.
C13_AsStated ==
    C13_Scenario =>
        /\ \A m \in Generated :
              m.from = E1 /\ ~ChessAttacks(board, D8, Queen, Black, m.to)
        /\ \A m \in Generated : ~(m.from = E1 /\ m.to = E1 + 8)
        /\ \E m \in Generated : m.from = E1 /\ m.to = F1

\* C14 as stated: from the starting position, search to depth 1 returns a move
\* that is legal in the starting position together with the score 0.
C14_AsStated ==
    (pc = "done" /\ root = NewBoard /\ depth0 = 1) =>
        /\ result.move # <<>>
        /\ result.move[1] \in Range(generate_moves(NewBoard))
        /\ result.score = 0


\* C14: from the starting position, search to depth 1 returns a move that is
\* legal in the starting position, and the score it returns is the best
\* static evaluation, seen by white, among the twenty positions one move
\* away: 50, for the knight's move b1-c3 (the first move in generation order
\* with that score).
C14_DepthOneFromStart ==
    (pc = "done" /\ root = NewBoard /\ depth0 = 1) =>
        /\ result.move # <<>>
        /\ result.move[1] \in Range(generate_moves(NewBoard))
        /\ result.score = 50
        /\ result.move[1] = Move(B1, 18, None, FALSE, FALSE)
        /\ \A m \in Range(generate_moves(NewBoard)) :
              material_pst(make_move(NewBoard, m)) <= result.score

\* the depth-1 search from the starting position has returned
C14_Witness ==
    /\ pc = "done"
    /\ root = NewBoard
    /\ depth0 = 1
    /\ ~board.panicked
    /\ result.move # <<>>


\* ------------------------------------------------------------------ uci.rs

\* A token of an input line is a sequence of one-character strings, a line
\* the sequence of its tokens (split_whitespace).
\* the words the loop and parse_position compare tokens with
Keyword ==
    [uci |-> <<"u", "c", "i">>,
     isready |-> <<"i", "s", "r", "e", "a", "d", "y">>,
     ucinewgame |-> <<"u", "c", "i", "n", "e", "w", "g", "a", "m", "e">>,
     position |-> <<"p", "o", "s", "i", "t", "i", "o", "n">>,
     go |-> <<"g", "o">>,
     perft |-> <<"p", "e", "r", "f", "t">>,
     quit |-> <<"q", "u", "i", "t">>,
     d |-> <<"d">>,
     startpos |-> <<"s", "t", "a", "r", "t", "p", "o", "s">>,
     fen |-> <<"f", "e", "n">>,
     moves |-> <<"m", "o", "v", "e", "s">>,
     depth |-> <<"d", "e", "p", "t", "h">>]

\* Board::piece_at: <<piece, color>>, or <<>> for None
piece_at(b, sq) ==
    IF sq \in b.occupancy[White] /\ find_piece_at(b, sq, White) # None
    THEN <<find_piece_at(b, sq, White), White>>
    ELSE IF sq \in b.occupancy[Black] /\ find_piece_at(b, sq, Black) # None
    THEN <<find_piece_at(b, sq, Black), Black>>
    ELSE <<>>

\* uci_to_move: <<m>>, or <<>> for None
uci_to_move(b, s) ==
    IF Len(s) < 4 THEN <<>>
    ELSE LET from_file == WrappingSub(Ascii(s[1]), Ascii("a"))
             from_rank == WrappingSub(Ascii(s[2]), Ascii("1"))
             to_file == WrappingSub(Ascii(s[3]), Ascii("a"))
             to_rank == WrappingSub(Ascii(s[4]), Ascii("1"))
         IN IF from_file > 7 \/ from_rank > 7 \/ to_file > 7 \/ to_rank > 7
            THEN <<>>
            ELSE LET from == from_rank * 8 + from_file
                     to == to_rank * 8 + to_file
                     promotion ==
                         IF Len(s) > 4
                         THEN CASE s[5] = "q" -> Queen
                                [] s[5] = "r" -> Rook
                                [] s[5] = "b" -> Bishop
                                [] s[5] = "n" -> Knight
                                [] OTHER -> None
                         ELSE None
                     at == piece_at(b, from)
                     is_castle ==
                         /\ at # <<>>
                         /\ at[1] = King
                         /\ \/ from = E1 /\ to \in {G1, C1}
                            \/ from = E8 /\ to \in {G8, C8}
                     is_en_passant ==
                         /\ at # <<>>
                         /\ at[1] = Pawn
                         /\ b.en_passant_sq # None
                         /\ to = b.en_passant_sq
                 IN <<Move(from, to, promotion, is_castle, is_en_passant)>>

\* parse_position's loop over the move tokens from index k on: each token
\* that uci_to_move accepts is handed to make_move as it is
RECURSIVE apply_moves(_, _, _, _)
apply_moves(b, tokens, k, checks) ==
    IF k > Len(tokens) \/ b.panicked THEN b
    ELSE LET m == uci_to_move(b, tokens[k])
         IN IF m = <<>> THEN apply_moves(b, tokens, k + 1, checks)
            ELSE apply_moves(IF checks THEN make_move_checked(b, m[1])
                             ELSE make_move(b, m[1]),
                             tokens, k + 1, checks)

\* parse_position (indices here are the code's plus one); checks: the build
\* has overflow checks
parse_position(b, tokens, checks) ==
    IF Len(tokens) < 2 THEN b
    ELSE LET start ==
                 IF tokens[2] = Keyword.startpos THEN <<NewBoard, 3>>
                 ELSE IF tokens[2] = Keyword.fen
                 THEN (IF Len(tokens) > 7
                       THEN (IF from_fen_checked(SubSeq(tokens, 3, 8), checks).panicked
                             THEN <<[b EXCEPT !.panicked = TRUE], 9>>
                             ELSE <<from_fen(SubSeq(tokens, 3, 8)), 9>>)
                       ELSE <<b, 3>>)
                 ELSE <<b, 2>>
             i == start[2]
         IN IF i <= Len(tokens) /\ tokens[i] = Keyword.moves
            THEN apply_moves(start[1], tokens, i + 1, checks)
            ELSE start[1]

\* parse_depth: the token after the first "depth" that has one, 6 when it is
\* no u8 or there is none
parse_depth(tokens) ==
    LET at == {i \in 1..(Len(tokens) - 1) : tokens[i] = Keyword.depth}
    IN IF at = {} THEN 6
       ELSE LET i == CHOOSE j \in at : \A k \in at : j <= k
                v == parse_u8(tokens[i + 1])
            IN IF v = None THEN 6 ELSE v

\* the depth the perft command passes on
perft_depth(tokens) ==
    IF Len(tokens) > 1
    THEN (IF parse_u8(tokens[2]) = None THEN 1 ELSE parse_u8(tokens[2]))
    ELSE 1

\* the characters of the files and of the ranks: (b'a' + n) as char and
\* (b'1' + n) as char for n in 0..7
FileChar == <<"a", "b", "c", "d", "e", "f", "g", "h">>
RankChar == <<"1", "2", "3", "4", "5", "6", "7", "8">>

\* move_to_uci
move_to_uci(m) ==
    <<FileChar[(m.from % 8) + 1], RankChar[(m.from \div 8) + 1],
      FileChar[(m.to % 8) + 1], RankChar[(m.to \div 8) + 1]>>
    \o (IF m.promotion = None THEN <<>>
        ELSE <<CASE m.promotion = Queen -> "q"
                 [] m.promotion = Rook -> "r"
                 [] m.promotion = Bishop -> "b"
                 [] m.promotion = Knight -> "n"
                 [] OTHER -> "q">>)

\* the lines the host sends
InputLines ==
    {<<>>,
     << Keyword.uci >>,
     << Keyword.isready >>,
     << Keyword.d >>,
     \* a command the loop does not know
     << <<"x", "y", "z">>, <<"1", "2">> >>,
     << Keyword.ucinewgame >>,
     << Keyword.quit >>,
     \* a truncated directive
     << Keyword.position >>,
     << Keyword.position, Keyword.startpos, Keyword.moves, <<"e", "2", "e", "4">>, <<"e", "7", "e", "5">> >>,
     \* two tokens that are no moves among the moves
     << Keyword.position, Keyword.startpos, Keyword.moves, <<"e", "2", "e", "4">>, <<"x", "2", "x", "4">>, <<"e", "7">>, <<"e", "7", "e", "5">> >>,
     \* four well-formed characters naming the empty square e4
     << Keyword.position, Keyword.startpos, Keyword.moves, <<"e", "4", "e", "5">> >>,
     \* five fields after fen: the position is not replaced
     << Keyword.position, Keyword.fen, <<"4", "k", "3", "/", "8", "/", "8", "/", "8", "/", "8", "/", "8", "/", "8", "/", "4", "K", "2", "R">>, <<"w">>, <<"K">>, <<"-">>, <<"0">> >>,
     \* the kingside right granted with the king on a1
     << Keyword.position, Keyword.fen, <<"4", "k", "3", "/", "8", "/", "8", "/", "8", "/", "8", "/", "8", "/", "8", "/", "K", "5", "N", "R">>, <<"w">>, <<"K">>, <<"-">>, <<"0">>, <<"1">> >>,
     << Keyword.position, Keyword.fen, <<"7", "k", "/", "P", "7", "/", "8", "/", "8", "/", "8", "/", "8", "/", "8", "/", "K", "7">>, <<"w">>, <<"-">>, <<"-">>, <<"0">>, <<"1">>, Keyword.moves, <<"a", "7", "a", "8", "q">> >>,
     \* the kingside right granted with e1 empty
     << Keyword.position, Keyword.fen, <<"4", "k", "3", "/", "8", "/", "8", "/", "8", "/", "8", "/", "8", "/", "8", "/", "K", "6", "R">>, <<"w">>, <<"K">>, <<"-">>, <<"0">>, <<"1">> >>,
     \* the kingside right granted with a rook on e1 and the king on h1
     << Keyword.position, Keyword.fen, <<"k", "7", "/", "8", "/", "8", "/", "8", "/", "8", "/", "8", "/", "8", "/", "4", "R", "2", "K">>, <<"w">>, <<"K">>, <<"-">>, <<"0">>, <<"1">> >>,
     \* the clock at 255 and a king move
     << Keyword.position, Keyword.fen, <<"4", "k", "3", "/", "8", "/", "8", "/", "8", "/", "8", "/", "8", "/", "8", "/", "4", "K", "3">>, <<"w">>, <<"-">>, <<"-">>, <<"2", "5", "5">>, <<"1">>, Keyword.moves, <<"e", "1", "d", "1">> >>,
     \* the clock at 254 and a king move: 255 for what follows
     << Keyword.position, Keyword.fen, <<"4", "k", "3", "/", "8", "/", "8", "/", "8", "/", "8", "/", "8", "/", "8", "/", "4", "K", "3">>, <<"w">>, <<"-">>, <<"-">>, <<"2", "5", "4">>, <<"1">>, Keyword.moves, <<"e", "1", "d", "1">> >>,
     \* nine `/` after the eighth rank: the i8 cursor overflows
     <<Keyword.position, Keyword.fen>> \o FenOverflow,
     <<Keyword.position, Keyword.fen>> \o FenMalformed,
     \* white is mated after four plies
     << Keyword.position, Keyword.startpos, Keyword.moves, <<"f", "2", "f", "3">>, <<"e", "7", "e", "5">>, <<"g", "2", "g", "4">>, <<"d", "8", "h", "4">> >>,
     \* black to move has no move and is not in check
     << Keyword.position, Keyword.fen, <<"7", "k", "/", "5", "Q", "2", "/", "6", "K", "1", "/", "8", "/", "8", "/", "8", "/", "8", "/", "8">>, <<"b">>, <<"-">>, <<"-">>, <<"0">>, <<"1">> >>,
     << Keyword.go, Keyword.depth, <<"1">> >>,
     << Keyword.go, Keyword.depth, <<"0">> >>,
     \* perft without a depth: depth 1
     << Keyword.perft >>,
     << Keyword.perft, <<"0">> >>,
     << Keyword.perft, <<"3">> >>}

\* the lines the loop reads before the input ends
MaxLines == 2

UciInit ==
    /\ board = NewBoard
    /\ pc = "uci"
    /\ root = NewBoard
    /\ depth0 = 0
    /\ stack = <<>>
    /\ rv = 0
    /\ result = <<>>
    /\ cutoff_seen = FALSE
    /\ nread = 0
    /\ out = <<>>

\* the loop is about to read a line
UciReading == pc = "uci" /\ ~board.panicked /\ nread < MaxLines

\* an empty line, uci, isready, d or a command the match does not know:
\* something is printed or nothing is done, the position stays
UciIgnored ==
    /\ UciReading
    /\ \E tokens \in InputLines :
          \/ tokens = <<>>
          \/ /\ tokens # <<>>
             /\ tokens[1] \notin {Keyword.ucinewgame, Keyword.position, Keyword.go, Keyword.perft, Keyword.quit}
    /\ nread' = nread + 1
    /\ out' = <<>>
    /\ UNCHANGED <<board, pc, root, depth0, stack, rv, result, cutoff_seen>>

UciNewGame ==
    /\ UciReading
    /\ \E tokens \in InputLines : tokens # <<>> /\ tokens[1] = Keyword.ucinewgame
    /\ board' = NewBoard
    /\ nread' = nread + 1
    /\ out' = <<>>
    /\ UNCHANGED <<pc, root, depth0, stack, rv, result, cutoff_seen>>

UciPosition ==
    /\ UciReading
    /\ \E tokens \in InputLines :
          /\ tokens # <<>> /\ tokens[1] = Keyword.position
          /\ \E checks \in BOOLEAN :
                board' = parse_position(board, tokens, checks)
    /\ nread' = nread + 1
    /\ out' = <<>>
    /\ UNCHANGED <<pc, root, depth0, stack, rv, result, cutoff_seen>>

\* Vec::is_empty on the moves generate_moves returned
is_empty_never(moves) == FALSE

is_empty(moves) == moves = <<>>

\* go: generate_moves on the position, then the null move or the search
UciGo ==
    /\ UciReading
    /\ \E tokens \in InputLines :
          /\ tokens # <<>> /\ tokens[1] = Keyword.go
          /\ \E checks \in BOOLEAN :
             IF generate_moves_panics(board) \/ (checks /\ probe_overflows(board))
             THEN /\ board' = [board EXCEPT !.panicked = TRUE]
                  /\ UNCHANGED <<pc, root, depth0, stack, rv, result, cutoff_seen, out>>
             ELSE IF is_empty(generate_moves(board))
             THEN /\ board' = generate_moves_caller(board)
                  /\ out' = <<IF is_in_check(board, board.side_to_move)
                               THEN <<"info string checkmate">>
                               ELSE <<"info string stalemate">>,
                              <<"bestmove", <<"0", "0", "0", "0">> >> >>
                  /\ UNCHANGED <<pc, root, depth0, stack, rv, result, cutoff_seen>>
             ELSE /\ pc' = "search"
                  /\ root' = board
                  /\ depth0' = parse_depth(tokens)
                  /\ stack' = <<>>
                  /\ rv' = 0
                  /\ result' = <<>>
                  /\ cutoff_seen' = FALSE
                  /\ out' = <<>>
                  /\ board' = generate_moves_caller(board)
    /\ nread' = nread + 1

UciPerft ==
    /\ UciReading
    /\ \E tokens \in InputLines :
          /\ tokens # <<>> /\ tokens[1] = Keyword.perft
          /\ pc' = "pcall"
          /\ root' = board
          /\ depth0' = perft_depth(tokens)
          /\ stack' = <<PerftFrame(perft_depth(tokens))>>
          /\ rv' = 0
          /\ result' = <<>>
    /\ nread' = nread + 1
    /\ out' = <<>>
    /\ UNCHANGED <<board, cutoff_seen>>

\* search or perft returned: the answer is printed and the loop reads on
UciResume ==
    /\ pc = "done"
    /\ ~board.panicked
    /\ pc' = "uci"
    /\ out' = IF DOMAIN result = {1}
              THEN << <<"Nodes searched:", result[1]>> >>
              ELSE << <<"info depth", depth0, "score cp", result.score>>,
                      <<"bestmove", move_to_uci(result.move[1])>> >>
    /\ UNCHANGED <<board, root, depth0, stack, rv, result, cutoff_seen, nread>>

\* quit, or the end of the input: the loop ends
UciQuit ==
    /\ pc = "uci"
    /\ ~board.panicked
    /\ \/ /\ nread < MaxLines
          /\ \E tokens \in InputLines : tokens # <<>> /\ tokens[1] = Keyword.quit
       \/ nread = MaxLines
    /\ pc' = "exit"
    /\ UNCHANGED <<board, root, depth0, stack, rv, result, cutoff_seen, nread, out>>

\* generate_moves, called by search, negamax or perft, ends the process: a
\* castling candidate without a piece behind it in any build, a probe that
\* overflows the clock in a build with overflow checks (without them the
\* probe wraps and SearchStart, NodeEnter and PerftEnter go on)
GeneratePanics ==
    /\ \/ pc = "search"
       \/ pc \in {"call", "pcall"} /\ Top.depth > 0
    /\ ~board.panicked
    /\ generate_moves_panics(board) \/ probe_overflows(board)
    /\ board' = [board EXCEPT !.panicked = TRUE]
    /\ pc' = "panic"
    /\ UNCHANGED <<root, depth0, nread, out, stack, rv, result, cutoff_seen>>

\* search called with depth 0: `depth - 1` overflows the u8.  A build with
\* overflow checks ends the process here; without them LoopMake goes on with
\* the wrapped value 255.
DepthOverflowPanics ==
    /\ pc = "loop"
    /\ Top.idx <= Len(Top.moves)
    /\ Top.depth = 0
    /\ board' = [make_move(board, Top.moves[Top.idx]) EXCEPT !.panicked = TRUE]
    /\ pc' = "panic"
    /\ UNCHANGED <<root, depth0, nread, out, stack, rv, result, cutoff_seen>>

UciNext ==
    \/ UciIgnored \/ UciNewGame \/ UciPosition \/ UciGo \/ UciPerft
    \/ UciResume \/ UciQuit
    \/ SearchStart \/ LoopMake \/ NodeEnter \/ LoopEnd \/ Return
    \/ PerftEnter \/ PerftMake \/ PerftSum \/ PerftReturn
    \/ GeneratePanics \/ DepthOverflowPanics

SpecUci == UciInit /\ [][UciNext]_vars

\* C15: no input line other than quit, and nothing but the end of the input,
\* ends the command loop: the process is never ended by a line it reads.
C15_LoopSurvivesInput == ~board.panicked

\* C16: make_move on a move whose from square holds no piece of the side to
\* move ends the process with every field of the position as it was (pieces,
\* occupancy, undo stack, rights, en-passant target, clock, side), and so does
\* unmake_move on an empty undo stack; neither returns a position.
C16_PanicBeforeMutation ==
    ~board.panicked =>
        /\ \A from \in 0..63 :
              find_piece_at(board, from, board.side_to_move) = None =>
                \A to \in {(from + d) % 64 : d \in {1, 8, 16}} :
                  \A flag \in {"plain", "castle", "ep"} :
                      make_move(board, Move(from, to, None,
                                            flag = "castle", flag = "ep"))
                          = [board EXCEPT !.panicked = TRUE]
        /\ board.history = <<>> =>
              unmake_move(board) = [board EXCEPT !.panicked = TRUE]

\* the position command has handed make_move the move e4e5 on the starting
\* position: the process has ended and the position is the starting one
C16_Witness ==
    /\ pc = "uci"
    /\ nread = 1
    /\ board = [NewBoard EXCEPT !.panicked = TRUE]
    /\ find_piece_at(NewBoard, 28, White) = None
    /\ uci_to_move(NewBoard, <<"e", "4", "e", "5">>)
           = <<Move(28, 36, None, FALSE, FALSE)>>

\* C17: generate_moves leaves the caller's position as it was, the undo stack
\* included: every candidate is probed on a clone.  Stated for every position
\* the command loop reaches on which generate_moves returns, and for the
\* position the go command holds after its call (root is the one before it).
C17_GenerateLeavesPosition ==
    /\ ~board.panicked /\ ~generate_moves_panics(board) =>
           generate_moves_caller(board) = board
    /\ pc = "search" => board = root

\* go was read after `position startpos moves e2e4 e7e5`: moves were
\* generated, none was rejected for want of candidates, two undo records stay
C17_Witness ==
    /\ pc = "search"
    /\ nread = 2
    /\ Len(board.history) = 2
    /\ Len(pseudo_legal_moves(board)) > 0
    /\ generate_moves(board) # <<>>

\* C18: a search started by `go depth N`, N in 0..255, on a position with a
\* legal move runs to the requested depth and returns: the remaining depth
\* goes down by exactly 1 from each call to the call it makes, never below 0,
\* the calls are never nested deeper than N, and the search does not end the
\* process.
C18_DepthDecreasesToZero ==
    (stack # <<>> /\ stack[1].fn = "search") =>
        /\ pc # "panic"
        /\ Len(stack) <= depth0 + 1
        /\ \A i \in 2..Len(stack) :
              /\ stack[i - 1].depth > 0
              /\ stack[i].depth = stack[i - 1].depth - 1

\* the king's home square and the rook's home corner of a castling right
RightHome(bit) ==
    CASE bit = WHITE_KINGSIDE -> [color |-> White, king |-> E1, rook |-> H1]
      [] bit = WHITE_QUEENSIDE -> [color |-> White, king |-> E1, rook |-> A1]
      [] bit = BLACK_KINGSIDE -> [color |-> Black, king |-> E8, rook |-> H8]
      [] bit = BLACK_QUEENSIDE -> [color |-> Black, king |-> E8, rook |-> A8]

\* C19: in every position reached from the starting position by moves the
\* generator returned, a castling right that is set has its king on the home
\* square (e1/e8) and a rook of that color on its home corner.
C19_RightsImplyHome ==
    \A bit \in board.castling_rights :
        /\ RightHome(bit).king \in board.pieces[RightHome(bit).color][King]
        /\ RightHome(bit).rook \in board.pieces[RightHome(bit).color][Rook]

\* 3.Bxa8 has taken the black rook on its home corner: black's queenside
\* right is gone with it, the other three rights stand with king and rook home
C19_Witness ==
    /\ board.history # <<>>
    /\ LastUndo.m.to = A8
    /\ LastUndo.captured = Rook
    /\ A8 \notin board.pieces[Black][Rook]
    /\ board.castling_rights = {WHITE_KINGSIDE, WHITE_QUEENSIDE, BLACK_KINGSIDE}

\* the home corner of the rook that castles with a king going to `to`
CastleCorner(to) ==
    CASE to = G1 -> H1
      [] to = C1 -> A1
      [] to = G8 -> H8
      [] to = C8 -> A8

\* the number of pieces of a kind a color has
Count(b, color, piece) == Cardinality(b.pieces[color][piece])

\* C20: in every position, one built from position text that grants a right
\* with king or rook away from home included, generating the moves does not
\* end the process, a castling move is returned only with the mover's king on
\* e1/e8 and the mover's rook on the corner of that side, and applying a
\* returned move leaves the mover with as many kings and no more rooks than
\* before.
C20_CastlingNeedsHome ==
    ~board.panicked =>
        /\ ~generate_moves_panics(board)
        /\ \A m \in Range(generate_moves(board)) :
              LET us == board.side_to_move
                  made == make_move(board, m)
              IN /\ m.is_castle =>
                       /\ (IF us = White THEN E1 ELSE E8)
                              \in board.pieces[us][King]
                       /\ CastleCorner(m.to) \in board.pieces[us][Rook]
                 /\ Count(made, us, King) = Count(board, us, King)
                 /\ m.promotion = None =>
                       Count(made, us, Rook) = Count(board, us, Rook)

\* the move resets the clock: a capture, en passant included, or a pawn move
ResetsClock(b, m) ==
    \/ m.is_en_passant
    \/ \E p \in Pieces : m.to \in b.pieces[opposite(b.side_to_move)][p]
    \/ m.from \in b.pieces[b.side_to_move][Pawn]

\* C21: make_move leaves the clock at 0 iff the move is a capture or a pawn
\* move and otherwise at the clock before plus 1, whatever the clock before
\* (0..255, position text included); stated for every move the generator
\* returns in a position the command loop holds, in either build.
C21_ClockCounts ==
    (pc = "uci" /\ ~board.panicked /\ ~generate_moves_panics(board)) =>
        \A m \in Range(generate_moves(board)) :
            \A made \in {make_move(board, m), make_move_checked(board, m)} :
                /\ ~made.panicked
                /\ made.halfmove_clock = 0 <=> ResetsClock(board, m)
                /\ ~ResetsClock(board, m) =>
                       made.halfmove_clock = board.halfmove_clock + 1

\* C22: in every position reached from the starting position by moves the
\* generator returned, no candidate of the generator, before or after the
\* legality filter, lands on the square of the opposing king; make_move is
\* never asked to take a king, and a returned move, once made, leaves no
\* square with two pieces.
C22_KingNeverTarget ==
    LET them == opposite(board.side_to_move)
    IN /\ \A m \in Range(pseudo_legal_moves(board)) :
             m.to \notin board.pieces[them][King]
       /\ \A m \in Range(generate_moves(board)) :
             /\ m.to \notin board.pieces[them][King]
             \* twelve bitboards without a common square: their sizes add
             \* up to the size of their union
             /\ LET made == make_move(board, m)
                IN Sum([k \in 1..12 |->
                          Cardinality(made.pieces[(k - 1) \div 6][(k - 1) % 6])])
                   = Cardinality(UNION {made.pieces[c][p] : c \in Colors, p \in Pieces})

\* the side to move is in check after moves were made and has a capture
\* among its candidates: the generator is producing captures next to kings
C22_Witness ==
    /\ board.history # <<>>
    /\ is_in_check(board, board.side_to_move)
    /\ \E m \in Range(generate_moves(board)) :
          m.to \in board.occupancy[opposite(board.side_to_move)]


\* ------------------------------------------------- search.rs as a function

\* the moves of a node in the order a walk takes them up: as generated,
\* back to front, or from the second on with the first last
Ordered(moves, order) ==
    LET n == Len(moves)
    IN CASE order = "given" -> moves
         [] order = "reversed" -> [i \in 1..n |-> moves[n + 1 - i]]
         [] order = "rotated" -> [i \in 1..n |-> moves[(i % n) + 1]]

Orders == {"given", "reversed", "rotated"}

RECURSIVE negamax(_, _, _, _, _)
RECURSIVE negamax_loop(_, _, _, _, _, _, _)

\* negamax's loop that stops at the first improvement of alpha
RECURSIVE negamax_loop_first_gain(_, _, _, _, _, _, _)
negamax_loop_first_gain(b, depth, alpha, beta, order, moves, i) ==
    IF i > Len(moves) THEN alpha
    ELSE LET score == -negamax(make_move(b, moves[i]), U8Dec(depth),
                               -beta, -alpha, order)
         IN IF score >= beta THEN beta
            ELSE IF score > alpha THEN score
            ELSE negamax_loop_first_gain(b, depth, alpha, beta, order,
                                         moves, i + 1)

\* negamax (search.rs 29-57) and its loop over the moves from the i-th on
negamax(b, depth, alpha, beta, order) ==
    IF depth = 0 THEN evaluate(b)
    ELSE LET moves == Ordered(generate_moves(b), order)
         IN IF moves = <<>> THEN no_moves_score(b)
            ELSE negamax_loop(b, depth, alpha, beta, order, moves, 1)

negamax_loop(b, depth, alpha, beta, order, moves, i) ==
    IF i > Len(moves) THEN alpha
    ELSE LET score == -negamax(make_move(b, moves[i]), U8Dec(depth),
                               -beta, -alpha, order)
         IN IF score >= beta THEN beta
            ELSE negamax_loop(b, depth,
                              IF score > alpha THEN score ELSE alpha,
                              beta, order, moves, i + 1)

\* search's loop (search.rs 15-24): <<best_move, best_score>> after the moves
\* from the i-th on, best_move being <<>> for None
RECURSIVE search_loop(_, _, _, _, _, _)
search_loop(b, depth, order, moves, i, best) ==
    IF i > Len(moves) THEN best
    ELSE LET score == -negamax(make_move(b, moves[i]), U8Dec(depth),
                               -INF, INF, order)
         IN search_loop(b, depth, order, moves, i + 1,
                        IF score > best[2] THEN <<<<moves[i]>>, score>>
                        ELSE best)

\* search (search.rs 11-26) on a position with a legal move
search(b, depth, order) ==
    search_loop(b, depth, order, Ordered(generate_moves(b), order), 1,
                <<<<>>, -INF>>)

\* the roots of the searches whose scores are compared
OrderRoots ==
    {[board |-> from_fen(r.fen), deeper |-> r.deeper] : r \in {
        \* queen and king against the king in the corner: Qf8 and Qg7 mate
        [deeper |-> 0,
         fen |-> << <<"7", "k", "/", "5", "Q", "2", "/", "6", "K", "1", "/", "8", "/", "8", "/", "8", "/", "8", "/", "8">>,
                     <<"w">>,
                     <<"-">>,
                     <<"-">>,
                     <<"0">>,
                     <<"1">> >>],
        \* rook and king against king: Rh8 mates, and so does a waiting rook
        \* move followed by Rh8 (searched one ply deeper than the others)
        [deeper |-> 1,
         fen |-> << <<"k", "7", "/", "8", "/", "1", "K", "6", "/", "8", "/", "8", "/", "8", "/", "8", "/", "7", "R">>,
                     <<"w">>,
                     <<"-">>,
                     <<"-">>,
                     <<"0">>,
                     <<"1">> >>],
        \* two pawns that can take each other, black to move
        [deeper |-> 0,
         fen |-> << <<"4", "k", "3", "/", "8", "/", "8", "/", "3", "p", "4", "/", "4", "P", "3", "/", "8", "/", "8", "/", "4", "K", "3">>,
                     <<"b">>,
                     <<"-">>,
                     <<"-">>,
                     <<"0">>,
                     <<"1">> >>] }}

\* the deepest of these searches
MaxOrderDepth == 3

OrderInit ==
    /\ \E r \in OrderRoots :
          /\ board = r.board
          /\ depth0 \in 1..(MaxOrderDepth + r.deeper)
    /\ root = board
    /\ pc = "search"
    /\ stack = <<>>
    /\ rv = 0
    /\ result = <<>>
    /\ cutoff_seen = FALSE
    /\ nread = 0
    /\ out = <<>>

SpecOrder == OrderInit /\ [][SearchNext]_vars

\* the set of the scores the children of a node hand up
RECURSIVE plain_negamax(_, _)
plain_negamax(b, depth) ==
    IF depth = 0 THEN evaluate(b)
    ELSE LET moves == generate_moves(b)
         IN IF moves = <<>> THEN no_moves_score(b)
            ELSE LET scores == {-plain_negamax(make_move(b, m), depth - 1) :
                                    m \in Range(moves)}
                 IN CHOOSE s \in scores : \A t \in scores : s >= t

\* C23: for a position with a legal move and a depth of at least 1, the score
\* search returns is the value of negamax without any pruning to the same
\* depth, with the same leaf evaluation and terminal scores, and it is that
\* value whatever the order in which the moves of each node are taken.
C23_ScoreIsMinimax ==
    pc = "done" =>
        /\ result.score = plain_negamax(root, depth0)
        /\ <<result.move, result.score>> = search(root, depth0, "given")
        /\ \A order \in Orders \ {"given"} :
              search(root, depth0, order)[2] = result.score

\* a search three plies deep has ended after cutting a node off
C23_Witness ==
    /\ pc = "done"
    /\ depth0 >= 3
    /\ cutoff_seen
    /\ generate_moves(root) # <<>>
    /\ result.score = plain_negamax(root, depth0)

\* the side to move of b is checkmated now (n = 0), or has moves and is
\* checkmated within n plies whatever it plays (n even)
RECURSIVE LostIn(_, _)
LostIn(b, n) ==
    LET moves == generate_moves(b)
    IN IF moves = <<>> THEN is_in_check(b, b.side_to_move)
       ELSE /\ n >= 2
            /\ \A m \in Range(moves) :
                  \E reply \in Range(generate_moves(make_move(b, m))) :
                      LostIn(make_move(make_move(b, m), reply), n - 2)

\* the least even number of plies up to max within which b's side to move is
\* checkmated by force, None when there is none
MatePlies(b, max) ==
    LET ns == {n \in 0..max : n % 2 = 0 /\ LostIn(b, n)}
    IN IF ns = {} THEN None ELSE CHOOSE n \in ns : \A k \in ns : n <= k

\* the score search gives the root move m
RootScore(m) == -negamax(make_move(root, m), U8Dec(depth0), -INF, INF, "given")

\* C24: a node whose side to move has no legal move is scored -INF+1 when
\* that side is in check and 0 when it is not, and of two root moves that
\* both force mate within the searched depth, the one that mates in fewer
\* plies is given the strictly higher score.
C24_ShorterMateScoresHigher ==
    /\ (pc = "ret" /\ Top.depth > 0 /\ generate_moves(board) = <<>>) =>
           rv = IF is_in_check(board, board.side_to_move) THEN -INF + 1 ELSE 0
    /\ pc = "done" =>
           \A a, b \in Range(generate_moves(root)) :
               LET pa == MatePlies(make_move(root, a), depth0 - 1)
                   pb == MatePlies(make_move(root, b), depth0 - 1)
               IN (pa # None /\ pb # None /\ pa < pb) =>
                      RootScore(a) > RootScore(b)

\* the lines `go` prints for a position without a legal move
NullAnswer(b) ==
    <<IF is_in_check(b, b.side_to_move)
      THEN <<"info string checkmate">>
      ELSE <<"info string stalemate">>,
      <<"bestmove", <<"0", "0", "0", "0">> >> >>

\* C25: a line read on a position without a legal move never starts the
\* search (every step that reads a line counts it in nread): `go` prints `info string checkmate` when the side to move is in
\* check and `info string stalemate` otherwise, then `bestmove 0000`, and the
\* loop reads on.  search therefore always starts on a position with a legal
\* move, and its `no legal moves` termination is never reached.
C25_NoMovesNullMove ==
    /\ [][(UciReading /\ nread' = nread + 1
              /\ ~generate_moves_panics(board)
              /\ generate_moves(board) = <<>>)
            => /\ pc' \in {"uci", "pcall"}
               /\ out' \in {<<>>, NullAnswer(board)}
               /\ out' # <<>> => (pc' = "uci" /\ board' = board)]_vars
    /\ [](pc = "search" => generate_moves(root) # <<>>)
    /\ [](pc = "done" /\ DOMAIN result # {1} => result.move # <<>>)

C25_Witness ==
    /\ pc = "uci"
    /\ nread = 2
    /\ generate_moves(board) = <<>>
    /\ is_in_check(board, board.side_to_move)
    /\ out = NullAnswer(board)
    /\ out[1] = <<"info string checkmate">>

\* what from_fen makes of the malformed and of the short text: the queen
\* named below square 0 and the `x` leave no piece, the rook lands on b1,
\* `x9` is no en-passant target, `x` is a clock of 0, missing fields are
\* empty or zero
FenDefaults ==
    /\ from_fen(FenMalformed).pieces[White] =
          [p \in Pieces |-> CASE p = King -> {A1} [] p = Rook -> {1} [] OTHER -> {}]
    /\ from_fen(FenMalformed).en_passant_sq = None
    /\ from_fen(FenMalformed).halfmove_clock = 0
    /\ from_fen(FenShort).side_to_move = White
    /\ from_fen(FenShort).castling_rights = {}
    /\ from_fen(FenShort).en_passant_sq = None
    /\ from_fen(FenShort).halfmove_clock = 0
    /\ from_fen(<<>>).pieces = [c \in Colors |-> [p \in Pieces |-> {}]]

\* C26: building a position from position text never fails, whatever the
\* text: before any move is made the process has not ended, each color's
\* occupancy is the union of its piece bitboards, and characters and fields
\* that name nothing are skipped or defaulted.
C26_FromFenNeverFails ==
    board.history = <<>> =>
        /\ ~board.panicked
        /\ \A c \in Colors :
              board.occupancy[c] = UNION {board.pieces[c][p] : p \in Pieces}
        /\ FenDefaults

\* the squares of color c's bishops, rooks and queens
Sliders(b, c) == b.pieces[c][Bishop] \cup b.pieces[c][Rook] \cup b.pieces[c][Queen]

\* C27: for every square and color, is_square_attacked answers true exactly
\* when some piece of that color attacks the square by the rules of chess: a
\* pawn one rank behind it in that color's direction on a neighbouring file,
\* a knight or king at its offset, a bishop, rook or queen on a line to it
\* with nothing in between.
C27_AttackedIffRules ==
    \A sq \in 0..63 : \A c \in Colors :
        is_square_attacked(board, sq, c) <=> ChessAttacked(board, sq, c)

C27_Witness ==
    /\ board.history # <<>>
    \* a slider attacks a square two or more steps away
    /\ \E c \in Colors : \E a \in Sliders(board, c) : \E t \in 0..63 :
          /\ Between(a, t) # {}
          /\ ChessAttacks(board, a, find_piece_at(board, a, c), c, t)
          /\ is_square_attacked(board, t, c)
    \* a blocked line: the square behind the blocker is not attacked
    /\ \E c \in Colors : \E a \in board.pieces[c][Rook] : \E t \in 0..63 :
          /\ OnStraightLine(a, t)
          /\ ~ChessAttacks(board, a, Rook, c, t)
          /\ ~is_square_attacked(board, t, c)
    \* a square only a black pawn attacks, white to move
    /\ board.side_to_move = White
    /\ \E t \in 0..63 :
          /\ is_square_attacked(board, t, Black)
          /\ \A p \in Pieces : \A a \in board.pieces[Black][p] :
                ChessAttacks(board, a, p, Black, t) => p = Pawn
    \* a pawn on the h-file and the a-file square two ranks on, not attacked
    /\ \E a \in board.pieces[White][Pawn] :
          /\ FileOf(a) = 7
          /\ a + 9 < 64
          /\ ~is_square_attacked(board, a + 9, White)

\* material and piece-square sum of one color's pieces, each square looked
\* up from that color's side of the board
SideSum(b, c) ==
    Sum([i \in 1..6 |->
           LET bits == BitIter(b.pieces[c][i - 1])
           IN Sum([k \in 1..Len(bits) |->
                     PIECE_VALUES[i] + get_pst(i - 1)[(IF c = White THEN bits[k]
                                                      ELSE flip_square(bits[k])) + 1]])])

\* C28: evaluate is the material and piece-square sum of the side to move
\* minus that of the opponent, less 50 when the side to move is in check,
\* for white and for black to move alike.
C28_CheckCostsFifty ==
    LET us == board.side_to_move
        diff == SideSum(board, us) - SideSum(board, opposite(us))
    IN evaluate(board) = IF is_in_check(board, us) THEN diff - 50 ELSE diff

C28_Witness ==
    /\ board.side_to_move = Black
    /\ is_in_check(board, Black)
    /\ evaluate(board) # material_pst(board)
    /\ evaluate(board) = SideSum(board, Black) - SideSum(board, White) - 50

\* C29: from the starting position the side to move is white exactly when
\* the undo stack holds an even number of records: every make of a generated
\* move pushes one record and hands the move to the other side, and unmake
\* pops one record and hands it back.
C29_SideIsStackParity ==
    /\ []((board.side_to_move = White) <=> (Len(board.history) % 2 = 0))
    /\ [][LET n == Len(board.history)
          IN \/ \* a make
                /\ Len(board'.history) = n + 1
                /\ SubSeq(board'.history, 1, n) = board.history
                /\ board'.side_to_move = opposite(board.side_to_move)
             \/ \* an unmake
                /\ n > 0
                /\ board'.history = SubSeq(board.history, 1, n - 1)
                /\ board'.side_to_move = opposite(board.side_to_move)]_board

\* black to move three plies in, with moves to make
C29_Witness ==
    /\ Len(board.history) = 3
    /\ board.side_to_move = Black
    /\ ~board.panicked
    /\ Generated # {}

\* C30: make_move never sets a castling right: after the make of any move
\* the rights are a subset of the rights before it, so the rights saved in
\* the undo records only shrink from the oldest record to the newest and on
\* to the position; unmake_move puts back the rights saved in the record it
\* pops, and nothing else.
C30_RightsOnlyShrink ==
    /\ \A m \in Generated :
          make_move(board, m).castling_rights \subseteq board.castling_rights
    /\ \A i \in 1..Len(board.history) :
          /\ board.castling_rights \subseteq board.history[i].castling_rights
          /\ \A j \in 1..i :
                board.history[i].castling_rights
                    \subseteq board.history[j].castling_rights
    /\ board.history # <<>> =>
          unmake_move(board).castling_rights = LastUndo.castling_rights

\* a right was cleared two or more plies ago, and a piece now stands ready
\* to leave the corner the right belongs to
C30_Witness ==
    /\ Len(board.history) >= 3
    /\ BLACK_QUEENSIDE \in board.history[1].castling_rights
    /\ BLACK_QUEENSIDE \notin LastUndo.castling_rights
    /\ BLACK_QUEENSIDE \notin board.castling_rights
    /\ \E m \in Generated : m.from = A8
    /\ unmake_move(board).castling_rights # board.history[1].castling_rights

\* C31: search, called with a depth of 1 or more on a position reached from
\* the starting position that has a legal move, returns one of the moves
\* generate_moves gives for that position and a score strictly between -INF
\* and INF; every value a negamax call returns lies strictly between them
\* too, so the first root move already beats the initial best_score and the
\* `no legal moves` termination is not reached.
C31_SearchReturnsGeneratedMove ==
    /\ pc = "ret" => (-INF < rv /\ rv < INF)
    /\ pc = "done" =>
          /\ ~board.panicked
          /\ result.move # <<>>
          /\ result.move[1] \in Range(generate_moves(root))
          /\ -INF < result.score
          /\ result.score < INF

\* a search of depth 2 or more has returned the mate it found: the score is
\* the largest a search can return
C31_Witness ==
    /\ pc = "done"
    /\ depth0 >= 2
    /\ generate_moves(root) # <<>>
    /\ result.move # <<>>
    /\ result.score = INF - 1
    /\ generate_moves(make_move(root, result.move[1])) = <<>>

\* the square on the same file with the ranks counted from the other side
MirrorSq(s) == 8 * (7 - RankOf(s)) + FileOf(s)

MirrorRight(r) ==
    CASE r = WHITE_KINGSIDE -> BLACK_KINGSIDE
      [] r = WHITE_QUEENSIDE -> BLACK_QUEENSIDE
      [] r = BLACK_KINGSIDE -> WHITE_KINGSIDE
      [] r = BLACK_QUEENSIDE -> WHITE_QUEENSIDE

\* the position with the colors of all pieces swapped, every square flipped
\* to the other side of the board and the other side to move
Mirror(b) ==
    [b EXCEPT
       !.pieces = [c \in Colors |-> [p \in Pieces |->
                      {MirrorSq(s) : s \in b.pieces[opposite(c)][p]}]],
       !.occupancy = [c \in Colors |->
                         {MirrorSq(s) : s \in b.occupancy[opposite(c)]}],
       !.side_to_move = opposite(b.side_to_move),
       !.castling_rights = {MirrorRight(r) : r \in b.castling_rights},
       !.en_passant_sq = IF b.en_passant_sq = None THEN None
                         ELSE MirrorSq(b.en_passant_sq)]

\* C32: evaluate gives a position and its color mirror (colors swapped,
\* ranks flipped, the other side to move) the same score; the starting
\* position, its own mirror but for the side to move, scores 0.
C32_EvaluateMirrorInvariant ==
    /\ evaluate(Mirror(board)) = evaluate(board)
    /\ evaluate(NewBoard) = 0
    /\ evaluate(Mirror(NewBoard)) = 0

\* a position unlike its mirror, with unequal scores for the two sides and
\* the side to move in check
C32_Witness ==
    /\ board.history # <<>>
    /\ is_in_check(board, board.side_to_move)
    /\ is_in_check(Mirror(board), opposite(board.side_to_move))
    /\ evaluate(board) \notin {0, -50}
    /\ Mirror(board).pieces # board.pieces
    /\ evaluate(Mirror(board)) = evaluate(board)

====
